---- MODULE Spec2Model ----
(***************************************************************************)
(* Verification model of artdig's metadata normalisation layer:            *)
(*   - src/src/artdig/getty_linked_art.py  (Linked Art JSON-LD converter)  *)
(*   - src/src/artdig/rijks/lido.py        (LIDO XML record accessors)     *)
(*                                                                         *)
(* Python values are modelled as tagged records (JNull, JStr, JNum, JBool, *)
(* JList, JDict).  A Python string is a sequence of characters; a string   *)
(* that the code only ever compares for equality (a vocabulary URI, a      *)
(* JSON-LD type) is written as a one-element sequence whose element stands *)
(* for the whole literal.  An operation that can raise returns Ok(v) or    *)
(* Err(kind), and the first Err of a call propagates to its caller as the  *)
(* Python exception does.                                                  *)
(***************************************************************************)
EXTENDS Integers, Sequences, FiniteSets, TLC

(***************************************************************************)
(* Strings                                                                 *)
(***************************************************************************)

\* The characters the model orders or lower-cases, by class.
Digits == <<"0", "1", "2", "3", "4", "5", "6", "7", "8", "9">>
Upper ==
  << "A", "B", "C", "D", "E", "F", "G", "H", "I", "J", "K", "L", "M", "N",
     "O", "P", "Q", "R", "S", "T", "U", "V", "W", "X", "Y", "Z" >>
LowerAlpha ==
  << "a", "b", "c", "d", "e", "f", "g", "h", "i", "j", "k", "l", "m", "n",
     "o", "p", "q", "r", "s", "t", "u", "v", "w", "x", "y", "z" >>

IndexIn(q, c) == CHOOSE i \in 1..Len(q) : q[i] = c
InSeq(q, c) == \E i \in 1..Len(q) : q[i] = c

\* ord(c) for the ASCII characters the model uses.
Code(c) ==
  CASE InSeq(Digits, c) -> 47 + IndexIn(Digits, c)
    [] InSeq(Upper, c) -> 64 + IndexIn(Upper, c)
    [] InSeq(LowerAlpha, c) -> 96 + IndexIn(LowerAlpha, c)
    [] c = " " -> 32
    [] c = "-" -> 45
    [] c = "." -> 46
    [] c = "/" -> 47
    [] c = ":" -> 58
    [] c = "_" -> 95

\* str.isspace for one character.
IsSpace(c) == c \in {" ", "\t", "\n"}

\* str.lower for one character.
LowerChar(c) == IF InSeq(Upper, c) THEN LowerAlpha[IndexIn(Upper, c)] ELSE c

\* s.lower()
Lower(s) == [i \in 1..Len(s) |-> LowerChar(s[i])]

\* s.startswith(p)
StartsWith(s, p) == Len(s) >= Len(p) /\ SubSeq(s, 1, Len(p)) = p

\* s[n:]
Drop(s, n) == SubSeq(s, n + 1, Len(s))

\* p in s   (substring test)
Contains(s, p) ==
  \E i \in 0..(Len(s) - Len(p)) : SubSeq(s, i + 1, i + Len(p)) = p

\* s.lstrip() / s.rstrip() / s.strip()
RECURSIVE LStrip(_)
LStrip(s) == IF s # <<>> /\ IsSpace(s[1]) THEN LStrip(Tail(s)) ELSE s

RECURSIVE RStrip(_)
RStrip(s) ==
  IF s # <<>> /\ IsSpace(s[Len(s)]) THEN RStrip(SubSeq(s, 1, Len(s) - 1)) ELSE s

Strip(s) == LStrip(RStrip(s))

\* s.rstrip(c)
RECURSIVE RStripChar(_, _)
RStripChar(s, c) ==
  IF s # <<>> /\ s[Len(s)] = c
  THEN RStripChar(SubSeq(s, 1, Len(s) - 1), c)
  ELSE s

\* The least index at which p occurs in s, or 0 when it does not.
FindFirst(s, p) ==
  IF Contains(s, p)
  THEN 1 + (CHOOSE i \in 0..(Len(s) - Len(p)) :
              /\ SubSeq(s, i + 1, i + Len(p)) = p
              /\ \A j \in 0..(i - 1) : SubSeq(s, j + 1, j + Len(p)) # p)
  ELSE 0

\* s.split(sep)[-1]: what is left after the left-to-right, non-overlapping
\* occurrences of sep have been cut off.
RECURSIVE SplitLast(_, _)
SplitLast(s, sep) ==
  IF FindFirst(s, sep) = 0 THEN s
  ELSE SplitLast(Drop(s, FindFirst(s, sep) - 1 + Len(sep)), sep)

\* s.replace(p, "")
RECURSIVE Remove(_, _)
Remove(s, p) ==
  IF s = <<>> \/ p = <<>> THEN s
  ELSE IF StartsWith(s, p) THEN Remove(Drop(s, Len(p)), p)
  ELSE <<s[1]>> \o Remove(Tail(s), p)

\* a < b in Python's string order (by code point, shorter prefix first).
RECURSIVE StrLess(_, _)
StrLess(a, b) ==
  IF b = <<>> THEN FALSE
  ELSE IF a = <<>> THEN TRUE
  ELSE IF a[1] = b[1] THEN StrLess(Tail(a), Tail(b))
  ELSE Code(a[1]) < Code(b[1])

(***************************************************************************)
(* Python / JSON values                                                    *)
(***************************************************************************)

JNull == [t |-> "null"]
JStr(s) == [t |-> "str", v |-> s]
JNum(n) == [t |-> "num", v |-> n]
JBool(b) == [t |-> "bool", v |-> b]
JList(q) == [t |-> "list", v |-> q]
JDict(f) == [t |-> "dict", v |-> f]

EmptyList == JList(<<>>)
EmptyDict == JDict(<<>>)
EmptyStr == JStr(<<>>)

IsDict(x) == x.t = "dict"
IsStr(x) == x.t = "str"
IsList(x) == x.t = "list"

\* a == b
JEq(a, b) == a.t = b.t /\ (a.t = "null" \/ a.v = b.v)

\* bool(x)
Truthy(x) ==
  CASE x.t = "null" -> FALSE
    [] x.t = "str" -> x.v # <<>>
    [] x.t = "num" -> x.v # 0
    [] x.t = "bool" -> x.v
    [] x.t = "list" -> x.v # <<>>
    [] x.t = "dict" -> DOMAIN x.v # {}

\* The outcome of an operation that may raise.
Ok(v) == [ok |-> TRUE, v |-> v]
Err(kind) == [ok |-> FALSE, err |-> kind]

\* d.get(k, dflt) on a dict d.
Get(d, k, dflt) == IF k \in DOMAIN d.v THEN d.v[k] ELSE dflt

\* x.get(k, dflt) on any value: only a dict has .get
GetR(x, k, dflt) ==
  IF IsDict(x) THEN Ok(Get(x, k, dflt)) ELSE Err("AttributeError")

\* The keys of a dict in iteration order.
RECURSIVE KeySeq(_)
KeySeq(ks) ==
  IF ks = {} THEN <<>>
  ELSE LET k == CHOOSE k \in ks : TRUE IN <<JStr(<<k>>)>> \o KeySeq(ks \ {k})

\* for e in x: the elements iterated, or TypeError for a non-iterable.
Iter(x) ==
  CASE x.t = "list" -> Ok(x.v)
    [] x.t = "str" -> Ok([i \in 1..Len(x.v) |-> JStr(<<x.v[i]>>)])
    [] x.t = "dict" -> Ok(KeySeq(DOMAIN x.v))
    [] OTHER -> Err("TypeError")

(***************************************************************************)
(* getty_linked_art.py: vocabulary                                         *)
(***************************************************************************)

AAT_PREFERRED_TERM == <<"http://vocab.getty.edu/aat/300404670">>
AAT_PRIMARY_TITLE == <<"https://data.getty.edu/local/thesaurus/object-title-primary">>
AAT_ACCESSION_NUMBER == <<"http://vocab.getty.edu/aat/300312355">>
AAT_DESCRIPTION == <<"http://vocab.getty.edu/aat/300080091">>
AAT_MATERIALS == <<"http://vocab.getty.edu/aat/300435429">>
AAT_CREDIT_LINE == <<"http://vocab.getty.edu/aat/300435418">>
AAT_COPYRIGHT == <<"http://vocab.getty.edu/aat/300435434">>
AAT_CULTURE == <<"http://vocab.getty.edu/aat/300055768">>
AAT_OBJECT_TYPE == <<"http://vocab.getty.edu/aat/300435443">>
AAT_PLACE_CREATED == <<"http://vocab.getty.edu/aat/300435448">>
AAT_DIMENSIONS_DESC == <<"http://vocab.getty.edu/aat/300435430">>
AAT_INSCRIPTION == <<"http://vocab.getty.edu/aat/300435414">>
AAT_SIGNATURE == <<"http://vocab.getty.edu/aat/300028705">>
AAT_HEIGHT == <<"http://vocab.getty.edu/aat/300055644">>
AAT_WIDTH == <<"http://vocab.getty.edu/aat/300055647">>
AAT_CLASSIFICATION_CATEGORY == <<"http://vocab.getty.edu/aat/300435444">>
AAT_CC0 == <<"http://creativecommons.org/publicdomain/zero/1.0/">>

LOCAL_DOR_ID == <<"https://data.getty.edu/local/thesaurus/dor-id">>
LOCAL_TMS_ID == <<"https://data.getty.edu/local/thesaurus/tms-id">>
LOCAL_SLUG == <<"https://data.getty.edu/local/thesaurus/slug-identifier">>
LOCAL_PRODUCER_DESC == <<"https://data.getty.edu/local/thesaurus/producer-description">>
LOCAL_PRODUCER_NAME == <<"https://data.getty.edu/local/thesaurus/producer-name">>
LOCAL_PRODUCER_NAT_DATES == <<"https://data.getty.edu/local/thesaurus/nationality-and-dates">>
LOCAL_PRODUCER_ROLE == <<"https://data.getty.edu/local/thesaurus/producer-role-statement">>
LOCAL_IIIF_MANIFEST == <<"https://data.getty.edu/local/thesaurus/iiif-manifest">>
LOCAL_RIGHTS_STATEMENT == <<"https://data.getty.edu/local/thesaurus/rights-statement">>

\* "https://data.getty.edu/museum/collection/object/", one element per path
\* component so that the '/'-splitting fallback sees its separators.
OBJECT_PREFIX ==
  << "https:", "/", "/", "data.getty.edu", "/", "museum", "/", "collection",
     "/", "object", "/" >>

(***************************************************************************)
(* getty_linked_art.py: helpers                                            *)
(***************************************************************************)

\* Sequencing of two steps: F on the value of r, or the exception r raised.
Then(r, F(_)) == IF r.ok THEN F(r.v) ELSE r

\* The inner loop of _has_class: for inner in cls.get("classified_as", []).
RECURSIVE has_class_inner(_, _, _)
has_class_inner(inners, j, aat_id) ==
  IF j > Len(inners) THEN Ok(FALSE)
  ELSE IF ~IsDict(inners[j]) THEN Err("AttributeError")
  ELSE IF JEq(Get(inners[j], "id", JNull), JStr(aat_id)) THEN Ok(TRUE)
  ELSE has_class_inner(inners, j + 1, aat_id)

\* The outer loop of _has_class: for cls in item.get("classified_as", []).
RECURSIVE has_class_outer(_, _, _)
has_class_outer(clss, i, aat_id) ==
  IF i > Len(clss) THEN Ok(FALSE)
  ELSE IF ~IsDict(clss[i]) THEN Err("AttributeError")
  ELSE IF JEq(Get(clss[i], "id", JNull), JStr(aat_id)) THEN Ok(TRUE)
  ELSE Then(Iter(Get(clss[i], "classified_as", EmptyList)),
            LAMBDA inners :
              Then(has_class_inner(inners, 1, aat_id),
                   LAMBDA found :
                     IF found THEN Ok(TRUE)
                     ELSE has_class_outer(clss, i + 1, aat_id)))

\* _has_class(item, aat_id): item is classified_as aat_id, directly or one
\* level down.
_has_class(item, aat_id) ==
  IF ~IsDict(item) THEN Err("AttributeError")
  ELSE Then(Iter(Get(item, "classified_as", EmptyList)),
            LAMBDA clss : has_class_outer(clss, 1, aat_id))

\* _find_by_class(items, aat_id): the first item with the class, else None.
RECURSIVE find_by_class_from(_, _, _)
find_by_class_from(items, i, aat_id) ==
  IF i > Len(items) THEN Ok(JNull)
  ELSE Then(_has_class(items[i], aat_id),
            LAMBDA has :
              IF has THEN Ok(items[i])
              ELSE find_by_class_from(items, i + 1, aat_id))

_find_by_class(items, aat_id) ==
  Then(Iter(items), LAMBDA its : find_by_class_from(its, 1, aat_id))

\* _find_all_by_class(items, aat_id): every item with the class, in order.
RECURSIVE find_all_by_class_from(_, _, _, _)
find_all_by_class_from(items, i, aat_id, acc) ==
  IF i > Len(items) THEN Ok(acc)
  ELSE Then(_has_class(items[i], aat_id),
            LAMBDA has :
              find_all_by_class_from(items, i + 1, aat_id,
                                     IF has THEN Append(acc, items[i]) ELSE acc))

_find_all_by_class(items, aat_id) ==
  Then(Iter(items), LAMBDA its : find_all_by_class_from(its, 1, aat_id, <<>>))

\* val.strip() or None
non_blank(text) == IF text # <<>> THEN JStr(text) ELSE JNull

\* _content(item): the stripped non-blank content string of item, else None.
_content(item) ==
  IF item.t = "null" THEN Ok(JNull)
  ELSE IF ~IsDict(item) THEN Err("AttributeError")
  ELSE IF IsStr(Get(item, "content", JNull))
       THEN Ok(non_blank(Strip(Get(item, "content", JNull).v)))
  ELSE Ok(JNull)

\* _content(_find_by_class(items, aat_id))
content_by_class(items, aat_id) ==
  Then(_find_by_class(items, aat_id), LAMBDA item : _content(item))

(***************************************************************************)
(* getty_linked_art.py: convert, field by field                            *)
(***************************************************************************)

\* x in y for a string needle x: substring of a str, element of a list, key
\* of a dict; TypeError for anything else.
InR(needle, y) ==
  CASE y.t = "str" -> Ok(Contains(y.v, needle))
    [] y.t = "list" -> Ok(\E i \in 1..Len(y.v) : JEq(y.v[i], JStr(needle)))
    [] y.t = "dict" -> Ok(\E k \in DOMAIN y.v : <<k>> = needle)
    [] OTHER -> Err("TypeError")

\* convert_id with the trailing slashes left in place.
convert_id_keeps_slashes(obj_id) ==
  IF ~IsStr(obj_id) THEN Err("AttributeError")
  ELSE IF StartsWith(obj_id.v, OBJECT_PREFIX)
       THEN Ok(JStr(Drop(obj_id.v, Len(OBJECT_PREFIX))))
  ELSE IF Truthy(obj_id) THEN Ok(JStr(SplitLast(obj_id.v, <<"/">>)))
  ELSE Ok(JNull)

\* convert, lines 172-176: the record id from obj_id = raw.get("id", "").
convert_id(obj_id) ==
  IF ~IsStr(obj_id) THEN Err("AttributeError")
  ELSE IF StartsWith(obj_id.v, OBJECT_PREFIX)
       THEN Ok(JStr(Drop(obj_id.v, Len(OBJECT_PREFIX))))
  ELSE IF Truthy(obj_id)
       THEN Ok(JStr(SplitLast(RStripChar(obj_id.v, "/"), <<"/">>)))
  ELSE Ok(JNull)

\* first_name after a Name with this content (lines 294-295).
first_of(first_name, content) ==
  IF first_name = JNull THEN content ELSE first_name

\* The loop of _extract_title from entry i on; first_name is the first Name
\* content seen so far.  Yields [preferred, first_name].
RECURSIVE extract_title_from(_, _, _)

\* Lines 293-299: a Name entry with its content.
title_of_name(entries, i, first_name, content) ==
  IF ~Truthy(content) THEN extract_title_from(entries, i + 1, first_name)
  ELSE Then(_has_class(entries[i], AAT_PREFERRED_TERM),
            LAMBDA preferred :
              IF preferred
              THEN Ok([preferred |-> content,
                       first_name |-> first_of(first_name, content)])
              ELSE Then(_has_class(entries[i], AAT_PRIMARY_TITLE),
                        LAMBDA primary :
                          IF primary
                          THEN Ok([preferred |-> content,
                                   first_name |-> first_of(first_name, content)])
                          ELSE extract_title_from(entries, i + 1,
                                 first_of(first_name, content))))

extract_title_from(entries, i, first_name) ==
  IF i > Len(entries)
  THEN Ok([preferred |-> JNull, first_name |-> first_name])
  ELSE IF ~IsDict(entries[i]) THEN Err("AttributeError")
  ELSE IF ~JEq(Get(entries[i], "type", JNull), JStr(<<"Name">>))
       THEN extract_title_from(entries, i + 1, first_name)
  ELSE Then(_content(entries[i]),
            LAMBDA content : title_of_name(entries, i, first_name, content))

\* _extract_title with the first Name taking precedence over the preferred.
_extract_title_first_wins(identified_by, fallback) ==
  Then(Iter(identified_by),
       LAMBDA entries :
         Then(extract_title_from(entries, 1, JNull),
              LAMBDA r :
                IF Truthy(r.first_name) THEN Ok(r.first_name)
                ELSE IF Truthy(r.preferred) THEN Ok(r.preferred)
                ELSE Ok(fallback)))

\* _extract_title(identified_by, fallback)
_extract_title(identified_by, fallback) ==
  Then(Iter(identified_by),
       LAMBDA entries :
         Then(extract_title_from(entries, 1, JNull),
              LAMBDA r :
                IF Truthy(r.preferred) THEN Ok(r.preferred)
                ELSE IF Truthy(r.first_name) THEN Ok(r.first_name)
                ELSE Ok(fallback)))

\* acc with v appended when v is truthy (if label: ...append(label)).
append_truthy(acc, v) == IF Truthy(v) THEN Append(acc, v) ELSE acc

\* convert, lines 189-193: labels of the classified_as entries that are
\* classification categories.
RECURSIVE classifications_from(_, _, _)
classifications_from(clss, i, acc) ==
  IF i > Len(clss) THEN Ok(JList(acc))
  ELSE Then(_has_class(clss[i], AAT_CLASSIFICATION_CATEGORY),
            LAMBDA has :
              classifications_from(clss, i + 1,
                IF has THEN append_truthy(acc, Get(clss[i], "_label", JNull))
                ELSE acc))

convert_classifications(raw) ==
  Then(Iter(Get(raw, "classified_as", EmptyList)),
       LAMBDA clss : classifications_from(clss, 1, <<>>))

\* description_from without the preference for markdown.
RECURSIVE description_from_first_wins(_, _, _)
description_from_first_wins(descs, i, description) ==
  IF i > Len(descs) THEN Ok(description)
  ELSE Then(_content(descs[i]),
            LAMBDA content :
              IF Truthy(content) /\ ~Truthy(description)
              THEN description_from_first_wins(descs, i + 1, content)
              ELSE description_from_first_wins(descs, i + 1, description))

\* convert, lines 206-213: the description, markdown preferred.
RECURSIVE description_from(_, _, _)
description_from(descs, i, description) ==
  IF i > Len(descs) THEN Ok(description)
  ELSE Then(_content(descs[i]),
            LAMBDA content :
              IF /\ Truthy(content)
                 /\ JEq(Get(descs[i], "format", EmptyStr),
                        JStr(<<"text/markdown">>))
              THEN Ok(content)
              ELSE IF Truthy(content) /\ ~Truthy(description)
                   THEN description_from(descs, i + 1, content)
              ELSE description_from(descs, i + 1, description))

convert_description(referred_to_by) ==
  Then(_find_all_by_class(referred_to_by, AAT_DESCRIPTION),
       LAMBDA descs : description_from(descs, 1, JNull))

\* convert, lines 217-222: [_content(i) for i in
\* _find_all_by_class(carries, aat_id) if _content(i)]
RECURSIVE contents_of(_, _, _)
contents_of(items, i, acc) ==
  IF i > Len(items) THEN Ok(JList(acc))
  ELSE Then(_content(items[i]),
            LAMBDA content :
              contents_of(items, i + 1, append_truthy(acc, content)))

convert_carried(carries, aat_id) ==
  Then(_find_all_by_class(carries, aat_id),
       LAMBDA items : contents_of(items, 1, <<>>))

\* The first truthy _content of the entries (lines 233-237 and 251-255).
RECURSIVE first_content_from(_, _)
first_content_from(idents, i) ==
  IF i > Len(idents) THEN Ok(JNull)
  ELSE Then(_content(idents[i]),
            LAMBDA content :
              IF Truthy(content) THEN Ok(content)
              ELSE first_content_from(idents, i + 1))

first_content(idents) ==
  Then(Iter(idents), LAMBDA its : first_content_from(its, 1))

\* Lines 233-239 for the timespan read at line 232.
dates_of(timespan) ==
  IF ~IsDict(timespan) THEN Err("AttributeError")
  ELSE Then(first_content(Get(timespan, "identified_by", EmptyList)),
            LAMBDA date :
              Ok([date |-> date,
                  date_begin |-> Get(timespan, "begin_of_the_begin", JNull),
                  date_end |-> Get(timespan, "end_of_the_end", JNull)]))

\* convert, lines 232-239: date, date_begin, date_end of the production.
convert_dates(produced_by) ==
  Then(GetR(produced_by, "timespan", EmptyDict),
       LAMBDA timespan : dates_of(timespan))

\* convert, lines 242-246: the first truthy _label of current_keeper.
RECURSIVE department_from(_, _)
department_from(keepers, i) ==
  IF i > Len(keepers) THEN Ok(JNull)
  ELSE IF ~IsDict(keepers[i]) THEN Err("AttributeError")
  ELSE IF Truthy(Get(keepers[i], "_label", JNull))
       THEN Ok(Get(keepers[i], "_label", JNull))
  ELSE department_from(keepers, i + 1)

convert_department(raw) ==
  Then(Iter(Get(raw, "current_keeper", EmptyList)),
       LAMBDA keepers : department_from(keepers, 1))

\* convert, lines 249-255: the current location's first content.
convert_location(raw) ==
  IF IsDict(Get(raw, "current_location", JNull))
  THEN first_content(Get(Get(raw, "current_location", JNull),
                         "identified_by", EmptyList))
  ELSE Ok(JNull)

\* "getty.edu/art/collection/object/" (line 260)
HomepageMark ==
  <<"getty.edu", "/", "art", "/", "collection", "/", "object", "/">>

\* convert, lines 258-263: homepage and IIIF manifest from subject_of; a
\* later entry overwrites an earlier one.
RECURSIVE urls_from(_, _, _)
urls_from(items, i, acc) ==
  IF i > Len(items) THEN Ok(acc)
  ELSE IF ~IsDict(items[i]) THEN Err("AttributeError")
  ELSE Then(InR(HomepageMark, Get(items[i], "id", EmptyStr)),
            LAMBDA home :
              IF home
              THEN urls_from(items, i + 1,
                     [acc EXCEPT !.homepage = Get(items[i], "id", EmptyStr)])
              ELSE Then(_has_class(items[i], LOCAL_IIIF_MANIFEST),
                        LAMBDA manifest :
                          urls_from(items, i + 1,
                            IF manifest
                            THEN [acc EXCEPT !.iiif_manifest =
                                    Get(items[i], "id", EmptyStr)]
                            ELSE acc)))

convert_urls(raw) ==
  Then(Iter(Get(raw, "subject_of", EmptyList)),
       LAMBDA items :
         urls_from(items, 1, [homepage |-> JNull, iiif_manifest |-> JNull]))

\* Lines 267-268 for the rep read at line 266.
image_url_of(rep) ==
  IF ~Truthy(rep) THEN Ok(JNull)
  ELSE CASE rep.t = "list" ->
              IF IsDict(rep.v[1]) THEN Ok(Get(rep.v[1], "id", JNull))
              ELSE Ok(JNull)
         [] rep.t = "str" -> Ok(JNull)
         [] rep.t = "dict" -> Err("KeyError")
         [] OTHER -> Err("TypeError")

\* convert, lines 266-268: the id of the first representation.
convert_image_url(raw) == image_url_of(Get(raw, "representation", EmptyList))

\* convert, lines 274-281: the pass over right.classified_as that reads the
\* rights statement's text; rights is the value held so far.
RECURSIVE rights_inner(_, _, _, _)
rights_inner(right, clss, j, rights) ==
  IF j > Len(clss) THEN Ok(rights)
  ELSE IF ~IsDict(clss[j]) THEN Err("AttributeError")
  ELSE IF JEq(Get(clss[j], "id", JNull), JStr(LOCAL_RIGHTS_STATEMENT))
       THEN Then(first_content(Get(right, "referred_to_by", EmptyList)),
                 LAMBDA content :
                   rights_inner(right, clss, j + 1,
                                IF Truthy(content) THEN content ELSE rights))
  ELSE rights_inner(right, clss, j + 1, rights)

\* Lines 274-281 for one subject_to entry.
rights_of(right, rights) ==
  Then(Iter(Get(right, "classified_as", EmptyList)),
       LAMBDA clss : rights_inner(right, clss, 1, rights))

\* rights_from with the flag assigned from the current entry alone.
RECURSIVE rights_from_last_wins(_, _, _)
rights_from_last_wins(subject_to, i, acc) ==
  IF i > Len(subject_to) THEN Ok(acc)
  ELSE Then(_has_class(subject_to[i], AAT_CC0),
            LAMBDA cc0 :
              Then(rights_of(subject_to[i], acc.rights),
                   LAMBDA rights :
                     rights_from_last_wins(subject_to, i + 1,
                       [is_public_domain |-> JBool(cc0), rights |-> rights])))

\* convert, lines 271-281: the loop over subject_to.
RECURSIVE rights_from(_, _, _)
rights_from(subject_to, i, acc) ==
  IF i > Len(subject_to) THEN Ok(acc)
  ELSE Then(_has_class(subject_to[i], AAT_CC0),
            LAMBDA cc0 :
              Then(rights_of(subject_to[i], acc.rights),
                   LAMBDA rights :
                     rights_from(subject_to, i + 1,
                       [is_public_domain |->
                          IF cc0 THEN JBool(TRUE) ELSE acc.is_public_domain,
                        rights |-> rights])))

convert_rights(raw) ==
  Then(Iter(Get(raw, "subject_to", EmptyList)),
       LAMBDA subject_to :
         rights_from(subject_to, 1,
                     [is_public_domain |-> JBool(FALSE), rights |-> JNull]))

\* An insertion-ordered dict as a sequence of [k, v] entries.
HasKey(d, k) == \E i \in 1..Len(d) : d[i].k = k
Lookup(d, k, dflt) ==
  IF HasKey(d, k) THEN d[CHOOSE i \in 1..Len(d) : d[i].k = k].v ELSE dflt
\* d[k] = v
Put(d, k, v) ==
  IF HasKey(d, k)
  THEN [i \in 1..Len(d) |-> IF d[i].k = k THEN [k |-> k, v |-> v] ELSE d[i]]
  ELSE Append(d, [k |-> k, v |-> v])
Keys(d) == {d[i].k : i \in 1..Len(d)}

SLUG_URN == <<"urn:getty-local:idm:object:slug", "/">>

\* _extract_identifiers: the key an entry maps to (the first of dor_id,
\* tms_id, slug whose class it has), or "" for none.
identifier_key(entry) ==
  Then(_has_class(entry, LOCAL_DOR_ID),
       LAMBDA dor :
         IF dor THEN Ok("dor_id")
         ELSE Then(_has_class(entry, LOCAL_TMS_ID),
                   LAMBDA tms :
                     IF tms THEN Ok("tms_id")
                     ELSE Then(_has_class(entry, LOCAL_SLUG),
                               LAMBDA slug :
                                 IF slug THEN Ok("slug") ELSE Ok(""))))

\* identifier_content with the slug prefix left in place.
identifier_content_kept(key, content) == content

\* Lines 438-439: the content stored under key.
identifier_content(key, content) ==
  IF key = "slug" /\ StartsWith(content.v, SLUG_URN)
  THEN JStr(SplitLast(content.v, <<"/">>))
  ELSE content

RECURSIVE identifiers_from(_, _, _)
identifiers_from(entries, i, acc) ==
  IF i > Len(entries) THEN Ok(acc)
  ELSE Then(_content(entries[i]),
            LAMBDA content :
              IF ~Truthy(content) THEN identifiers_from(entries, i + 1, acc)
              ELSE Then(identifier_key(entries[i]),
                        LAMBDA key :
                          identifiers_from(entries, i + 1,
                            IF key = "" THEN acc
                            ELSE Put(acc, key,
                                     identifier_content(key, content)))))

\* _extract_identifiers(identified_by, obj): obj.identifiers afterwards.
_extract_identifiers(identified_by) ==
  Then(Iter(identified_by), LAMBDA entries : identifiers_from(entries, 1, <<>>))

(***************************************************************************)
(* getty_linked_art.py: _extract_dimensions                                *)
(***************************************************************************)

LabelImage == <<"I", "m", "a", "g", "e">>
LabelSheet == <<"S", "h", "e", "e", "t">>
LabelOverall == <<"O", "v", "e", "r", "a", "l", "l">>
LabelMount == <<"M", "o", "u", "n", "t">>
LabelSetPrefix ==
  <<"D", "i", "m", "e", "n", "s", "i", "o", "n", "s", " ", "S", "e", "t", ":">>
NameDefault == <<"d", "e", "f", "a", "u", "l", "t">>

\* The if/elif chain on a membership or technique label: the fixed set name
\* the label selects, <<>> when it selects none.
fixed_set_name(label) ==
  Then(InR(LabelImage, label),
       LAMBDA image :
         IF image THEN Ok(Lower(LabelImage))
         ELSE IF InR(LabelSheet, label).v THEN Ok(Lower(LabelSheet))
         ELSE IF InR(LabelOverall, label).v THEN Ok(Lower(LabelOverall))
         ELSE IF InR(LabelMount, label).v THEN Ok(Lower(LabelMount))
         ELSE Ok(<<>>))

\* Lines 331-333: the set name taken from what is left of the label.
named_set(parts, set_name) == IF parts # <<>> THEN Lower(parts) ELSE set_name

\* Lines 319-333: the set name after the member_of entries from j on.
RECURSIVE member_set_name(_, _, _)
member_set_name(members, j, set_name) ==
  IF j > Len(members) THEN Ok(set_name)
  ELSE IF ~IsDict(members[j]) THEN Err("AttributeError")
  ELSE Then(fixed_set_name(Get(members[j], "_label", EmptyStr)),
            LAMBDA fixed :
              IF fixed # <<>> THEN member_set_name(members, j + 1, fixed)
              ELSE IF ~IsStr(Get(members[j], "_label", EmptyStr))
                   THEN Err("AttributeError")
              ELSE member_set_name(members, j + 1,
                     named_set(Strip(Remove(Get(members[j], "_label",
                                                EmptyStr).v,
                                            LabelSetPrefix)),
                               set_name)))

NoVals == [height |-> JNull, width |-> JNull, unit |-> JNull]

\* Lines 339-342: the unit a unit label stores, JNull when it stores none.
unit_of_label(unit_label) ==
  Then(InR(<<"Centimeters">>, unit_label),
       LAMBDA cm :
         IF cm THEN Ok(JStr(<<"cm">>))
         ELSE IF Truthy(unit_label) THEN Ok(unit_label)
         ELSE Ok(JNull))

\* Lines 338-342: the unit a measurement node stores.
dim_unit(dim) ==
  IF ~IsDict(Get(dim, "unit", EmptyDict)) THEN Err("AttributeError")
  ELSE unit_of_label(Get(Get(dim, "unit", EmptyDict), "_label", EmptyStr))

\* Lines 340-347 on the values of one set.
with_unit(vals, unit) ==
  IF unit = JNull THEN vals ELSE [vals EXCEPT !.unit = unit]
with_value(vals, is_height, value) ==
  IF is_height THEN [vals EXCEPT !.height = value]
  ELSE [vals EXCEPT !.width = value]

\* Lines 335-347: sets after one measurement has been stored.
store_measurement(sets, set_name, unit, is_height, value) ==
  Put(sets, set_name,
      with_value(with_unit(Lookup(sets, set_name, NoVals), unit),
                 is_height, value))

\* Lines 314-347: the loop over the dimension array; sets is the ordered
\* dict built so far.
RECURSIVE measurement_sets(_, _, _)

\* Lines 318-347 for a height or width measurement.
measure(dims, i, sets, is_height) ==
  Then(Iter(Get(dims[i], "member_of", EmptyList)),
       LAMBDA members :
         Then(member_set_name(members, 1, NameDefault),
              LAMBDA set_name :
                Then(dim_unit(dims[i]),
                     LAMBDA unit :
                       measurement_sets(dims, i + 1,
                         store_measurement(sets, set_name, unit, is_height,
                                           Get(dims[i], "value", JNull))))))

measurement_sets(dims, i, sets) ==
  IF i > Len(dims) THEN Ok(sets)
  ELSE Then(_has_class(dims[i], AAT_HEIGHT),
            LAMBDA is_height :
              IF is_height THEN measure(dims, i, sets, TRUE)
              ELSE Then(_has_class(dims[i], AAT_WIDTH),
                        LAMBDA is_width :
                          IF is_width THEN measure(dims, i, sets, FALSE)
                          ELSE measurement_sets(dims, i + 1, sets)))

\* Lines 357-367: the set name a description's techniques select.
RECURSIVE technique_set_name(_, _, _)
technique_set_name(techs, k, set_name) ==
  IF k > Len(techs) THEN Ok(set_name)
  ELSE IF ~IsDict(techs[k]) THEN Err("AttributeError")
  ELSE Then(fixed_set_name(Get(techs[k], "_label", EmptyStr)),
            LAMBDA fixed :
              technique_set_name(techs, k + 1,
                                 IF fixed # <<>> THEN fixed ELSE set_name))

RECURSIVE assignment_set_name(_, _, _)
assignment_set_name(assignments, j, set_name) ==
  IF j > Len(assignments) THEN Ok(set_name)
  ELSE IF ~IsDict(assignments[j]) THEN Err("AttributeError")
  ELSE Then(Iter(Get(assignments[j], "technique", EmptyList)),
            LAMBDA techs :
              Then(technique_set_name(techs, 1, set_name),
                   LAMBDA name :
                     assignment_set_name(assignments, j + 1, name)))

\* Lines 350-368: the loop over the dimension descriptions.
RECURSIVE display_strings_from(_, _, _)

\* Lines 356-368 for a description with content.
display_string(refs, i, acc, content) ==
  Then(Iter(Get(refs[i], "assigned_by", EmptyList)),
       LAMBDA assignments :
         Then(assignment_set_name(assignments, 1, NameDefault),
              LAMBDA set_name :
                display_strings_from(refs, i + 1, Put(acc, set_name, content))))

display_strings_from(refs, i, acc) ==
  IF i > Len(refs) THEN Ok(acc)
  ELSE Then(_content(refs[i]),
            LAMBDA content :
              IF ~Truthy(content) THEN display_strings_from(refs, i + 1, acc)
              ELSE display_string(refs, i, acc, content))

\* An enumeration of a finite set.
RECURSIVE Enum(_)
Enum(S) ==
  IF S = {} THEN <<>>
  ELSE <<CHOOSE x \in S : TRUE>> \o Enum(S \ {CHOOSE x \in S : TRUE})

RemoveAt(q, i) == SubSeq(q, 1, i - 1) \o SubSeq(q, i + 1, Len(q))

\* The h-th arrangement of q: every arrangement is some h's.
RECURSIVE Arrange(_, _)
Arrange(q, h) ==
  IF q = <<>> THEN <<>>
  ELSE <<q[(h % Len(q)) + 1]>>
         \o Arrange(RemoveAt(q, (h % Len(q)) + 1), h \div Len(q))

\* Iterating a Python set of strings: the order depends on the process's
\* string-hash seed h and is otherwise unspecified.
SetIter(S, h) == Arrange(Enum(S), h)

\* sorted(q) for strings: insertion sort by StrLess.
RECURSIVE InsertSorted(_, _)
InsertSorted(q, x) ==
  IF q = <<>> THEN <<x>>
  ELSE IF StrLess(x, q[1]) THEN <<x>> \o q
  ELSE <<q[1]>> \o InsertSorted(Tail(q), x)

RECURSIVE Sorted(_)
Sorted(q) ==
  IF q = <<>> THEN <<>> ELSE InsertSorted(Sorted(Tail(q)), q[1])

\* Lines 373-379: the Dimensions of one set.
dimensions_of(vals, display) ==
  [height |-> vals.height, width |-> vals.width, unit |-> vals.unit,
   display |-> display]

\* Lines 371-380: one Dimensions per set name, inserted in the given order.
build_dimensions(names, sets, display_strings) ==
  [i \in 1..Len(names) |->
     [k |-> names[i],
      v |-> dimensions_of(Lookup(sets, names[i], NoVals),
                          Lookup(display_strings, names[i], JNull))]]

\* Lines 312-368: the measurement sets and the display strings.
dimension_tables(dimension_items, referred_to_by) ==
  Then(Iter(dimension_items),
       LAMBDA dims :
         Then(measurement_sets(dims, 1, <<>>),
              LAMBDA sets :
                Then(_find_all_by_class(referred_to_by, AAT_DIMENSIONS_DESC),
                     LAMBDA refs :
                       Then(display_strings_from(refs, 1, <<>>),
                            LAMBDA display_strings :
                              Ok([sets |-> sets,
                                  display_strings |-> display_strings])))))

\* _extract_dimensions without sorted(): the set names in iteration order.
_extract_dimensions_unsorted(dimension_items, referred_to_by, h) ==
  Then(dimension_tables(dimension_items, referred_to_by),
       LAMBDA t :
         Ok(build_dimensions(
              SetIter(Keys(t.sets) \cup Keys(t.display_strings), h),
              t.sets, t.display_strings)))

\* _extract_dimensions(dimension_items, referred_to_by, obj): obj.dimensions
\* afterwards, under hash seed h.
_extract_dimensions(dimension_items, referred_to_by, h) ==
  Then(dimension_tables(dimension_items, referred_to_by),
       LAMBDA t :
         Ok(build_dimensions(
              Sorted(SetIter(Keys(t.sets) \cup Keys(t.display_strings), h)),
              t.sets, t.display_strings)))

(***************************************************************************)
(* getty_linked_art.py: _extract_artists                                   *)
(***************************************************************************)

PersonSep == <<"/", "person", "/">>

NoArtist ==
  [name |-> JNull, role |-> JNull, nationality_and_dates |-> JNull,
   description |-> JNull, id |-> JNull]

\* Lines 397-399: the role left by the person's referred_to_by entries.
RECURSIVE artist_role(_, _, _)
artist_role(refs, j, role) ==
  IF j > Len(refs) THEN Ok(role)
  ELSE Then(_has_class(refs[j], LOCAL_PRODUCER_ROLE),
            LAMBDA has :
              IF has
              THEN Then(_content(refs[j]),
                        LAMBDA content : artist_role(refs, j + 1, content))
              ELSE artist_role(refs, j + 1, role))

\* Lines 390-399: the Artist of a person with the given role.
artist_with(person, is_person, role) ==
  [NoArtist EXCEPT
     !.name = Get(person, "_label", JNull),
     !.id = IF is_person
            THEN JStr(SplitLast(Get(person, "id", EmptyStr).v, PersonSep))
            ELSE JNull,
     !.role = role]

\* Lines 390-401: the Artist built from one carried_out_by entry.
artist_of(person) ==
  IF ~IsDict(person) THEN Err("AttributeError")
  ELSE Then(InR(PersonSep, Get(person, "id", EmptyStr)),
            LAMBDA is_person :
              IF is_person /\ ~IsStr(Get(person, "id", EmptyStr))
              THEN Err("AttributeError")
              ELSE Then(Iter(Get(person, "referred_to_by", EmptyList)),
                        LAMBDA refs :
                          Then(artist_role(refs, 1, JNull),
                               LAMBDA role :
                                 Ok(artist_with(person, is_person, role)))))

RECURSIVE artists_from(_, _, _)
artists_from(persons, i, acc) ==
  IF i > Len(persons) THEN Ok(acc)
  ELSE Then(artist_of(persons[i]),
            LAMBDA artist : artists_from(persons, i + 1, Append(acc, artist)))

\* Lines 409-421: the production-level name, description and nationality
\* attached to the first artist, or a synthesized artist.
attach_production(artists, name_from_ref, desc_from_ref, nat_from_ref) ==
  IF artists # <<>>
  THEN [artists EXCEPT
          ![1] = [@ EXCEPT
                    !.description = desc_from_ref,
                    !.nationality_and_dates = nat_from_ref,
                    !.name = IF ~Truthy(@) /\ Truthy(name_from_ref)
                             THEN name_from_ref ELSE @]]
  ELSE IF Truthy(name_from_ref) \/ Truthy(desc_from_ref)
       THEN << [NoArtist EXCEPT
                  !.name = name_from_ref,
                  !.description = desc_from_ref,
                  !.nationality_and_dates = nat_from_ref] >>
  ELSE <<>>

\* Lines 404-421 for the artists of the carried_out_by loop.
artists_with_production(artists, referred) ==
  Then(content_by_class(referred, LOCAL_PRODUCER_NAME),
       LAMBDA name_from_ref :
         Then(content_by_class(referred, LOCAL_PRODUCER_DESC),
              LAMBDA desc_from_ref :
                Then(content_by_class(referred, LOCAL_PRODUCER_NAT_DATES),
                     LAMBDA nat_from_ref :
                       Ok(attach_production(artists, name_from_ref,
                                            desc_from_ref, nat_from_ref)))))

\* _extract_artists(produced_by, obj): obj.artists afterwards.
_extract_artists(produced_by) ==
  IF ~IsDict(produced_by) THEN Err("AttributeError")
  ELSE Then(Iter(Get(produced_by, "carried_out_by", EmptyList)),
            LAMBDA persons :
              Then(artists_from(persons, 1, <<>>),
                   LAMBDA artists :
                     artists_with_production(artists,
                       Get(produced_by, "referred_to_by", EmptyList))))

(***************************************************************************)
(* getty_linked_art.py: convert and to_dict                                *)
(***************************************************************************)

\* The first Err among the step outcomes, in the order the code runs them.
RECURSIVE FirstErr(_)
FirstErr(steps) ==
  IF steps = <<>> THEN Ok(TRUE)
  ELSE IF ~steps[1].ok THEN steps[1]
  ELSE FirstErr(Tail(steps))

\* The outcome of each step of convert(raw), under string-hash seed h.
convert_steps(raw, h) ==
  [id |-> convert_id(Get(raw, "id", EmptyStr)),
   title |-> _extract_title(Get(raw, "identified_by", EmptyList),
                            Get(raw, "_label", JNull)),
   accession_number |-> content_by_class(Get(raw, "identified_by", EmptyList),
                                         AAT_ACCESSION_NUMBER),
   classifications |-> convert_classifications(raw),
   object_type |-> content_by_class(Get(raw, "referred_to_by", EmptyList),
                                    AAT_OBJECT_TYPE),
   medium |-> content_by_class(Get(raw, "referred_to_by", EmptyList),
                               AAT_MATERIALS),
   culture |-> content_by_class(Get(raw, "referred_to_by", EmptyList),
                                AAT_CULTURE),
   place_created |-> content_by_class(Get(raw, "referred_to_by", EmptyList),
                                      AAT_PLACE_CREATED),
   copyright |-> content_by_class(Get(raw, "referred_to_by", EmptyList),
                                  AAT_COPYRIGHT),
   credit_line |-> content_by_class(Get(raw, "referred_to_by", EmptyList),
                                    AAT_CREDIT_LINE),
   description |-> convert_description(Get(raw, "referred_to_by", EmptyList)),
   inscriptions |-> convert_carried(Get(raw, "carries", EmptyList),
                                    AAT_INSCRIPTION),
   signatures |-> convert_carried(Get(raw, "carries", EmptyList),
                                  AAT_SIGNATURE),
   dimensions |-> _extract_dimensions(Get(raw, "dimension", EmptyList),
                                      Get(raw, "referred_to_by", EmptyList), h),
   artists |-> _extract_artists(Get(raw, "produced_by", EmptyDict)),
   dates |-> convert_dates(Get(raw, "produced_by", EmptyDict)),
   department |-> convert_department(raw),
   current_location |-> convert_location(raw),
   urls |-> convert_urls(raw),
   image_url |-> convert_image_url(raw),
   rights |-> convert_rights(raw),
   identifiers |-> _extract_identifiers(Get(raw, "identified_by", EmptyList))]

\* The steps of convert in the order of the code.
in_code_order(s) ==
  << s.id, s.title, s.accession_number, s.classifications, s.object_type,
     s.medium, s.culture, s.place_created, s.copyright, s.credit_line,
     s.description, s.inscriptions, s.signatures, s.dimensions, s.artists,
     s.dates, s.department, s.current_location, s.urls, s.image_url,
     s.rights, s.identifiers >>

\* The GettyObject the steps have filled in.
object_of(s) ==
  [id |-> s.id.v,
   title |-> s.title.v,
   accession_number |-> s.accession_number.v,
   classifications |-> s.classifications.v,
   object_type |-> s.object_type.v,
   medium |-> s.medium.v,
   date |-> s.dates.v.date,
   date_begin |-> s.dates.v.date_begin,
   date_end |-> s.dates.v.date_end,
   culture |-> s.culture.v,
   place_created |-> s.place_created.v,
   description |-> s.description.v,
   dimensions |-> s.dimensions.v,
   artists |-> s.artists.v,
   copyright |-> s.copyright.v,
   rights |-> s.rights.v.rights,
   credit_line |-> s.credit_line.v,
   department |-> s.department.v,
   current_location |-> s.current_location.v,
   inscriptions |-> s.inscriptions.v,
   signatures |-> s.signatures.v,
   homepage |-> s.urls.v.homepage,
   image_url |-> s.image_url.v,
   iiif_manifest |-> s.urls.v.iiif_manifest,
   is_public_domain |-> s.rights.v.is_public_domain,
   identifiers |-> s.identifiers.v]

\* The outcome of steps s: the object, or the first exception raised.
outcome_of(s) ==
  IF FirstErr(in_code_order(s)).ok THEN Ok(object_of(s))
  ELSE FirstErr(in_code_order(s))

\* convert(raw) under string-hash seed h: Ok(the GettyObject) or the
\* exception the call raises.
convert(raw, h) == outcome_of(convert_steps(raw, h))

\* An ordered mapping in a serialized record.
OMap(entries) == [t |-> "omap", v |-> entries]

\* {k: v for k, v in self.__dict__.items() if v is not None} over the given
\* field names (Artist.to_dict, Dimensions.to_dict).
RECURSIVE non_null_fields(_, _, _, _)
non_null_fields(rec, fields, i, acc) ==
  IF i > Len(fields) THEN OMap(acc)
  ELSE non_null_fields(rec, fields, i + 1,
         IF rec[fields[i]] = JNull THEN acc
         ELSE Append(acc, [k |-> fields[i], v |-> rec[fields[i]]]))

ArtistFields == <<"name", "role", "nationality_and_dates", "description", "id">>
DimensionsFields == <<"height", "width", "unit", "display">>

Artist_to_dict(a) == non_null_fields(a, ArtistFields, 1, <<>>)
Dimensions_to_dict(dim) == non_null_fields(dim, DimensionsFields, 1, <<>>)

\* The fields of GettyObject in declaration order.
GettyObjectFields ==
  << "id", "title", "accession_number", "classifications", "object_type",
     "medium", "date", "date_begin", "date_end", "culture", "place_created",
     "description", "dimensions", "artists", "copyright", "rights",
     "credit_line", "department", "current_location", "inscriptions",
     "signatures", "homepage", "image_url", "iiif_manifest",
     "is_public_domain", "identifiers" >>

\* v is None or v == [] or v == {}   (line 151)
to_dict_skips(k, v) ==
  IF k \in {"dimensions", "artists", "identifiers"} THEN v = <<>>
  ELSE \/ v.t = "null"
       \/ (v.t = "list" /\ v.v = <<>>)
       \/ (v.t = "dict" /\ DOMAIN v.v = {})

\* The value to_dict stores for field k (lines 153-158).
to_dict_value(k, v) ==
  CASE k = "dimensions" ->
         OMap([i \in 1..Len(v) |-> [k |-> v[i].k, v |-> Dimensions_to_dict(v[i].v)]])
    [] k = "artists" -> JList([i \in 1..Len(v) |-> Artist_to_dict(v[i])])
    [] k = "identifiers" -> OMap(v)
    [] OTHER -> v

\* d after field k with value v (lines 150-158).
to_dict_field(acc, k, v) ==
  IF to_dict_skips(k, v) THEN acc
  ELSE Append(acc, [k |-> k, v |-> to_dict_value(k, v)])

RECURSIVE to_dict_from(_, _, _)
to_dict_from(obj, i, acc) ==
  IF i > Len(GettyObjectFields) THEN OMap(acc)
  ELSE to_dict_from(obj, i + 1,
         to_dict_field(acc, GettyObjectFields[i], obj[GettyObjectFields[i]]))

\* GettyObject.to_dict()
GettyObject_to_dict(obj) == to_dict_from(obj, 1, <<>>)


(***************************************************************************)
(* rijks/lido.py: XML elements and the module-level helpers                *)
(*                                                                         *)
(* An element is [t |-> "el", tag, lang, type, source, text, kids]: its    *)
(* local name, its xml:lang, lido:type and lido:source attributes and its  *)
(* text (each a JStr or None), and its children in document order.  Every  *)
(* element is in the LIDO namespace.  A float is held in hundredths.       *)
(***************************************************************************)

Element(tag, lang, text, kids) ==
  [t |-> "el", tag |-> tag, lang |-> lang, type |-> JNull, source |-> JNull,
   text |-> text, kids |-> kids]

En == JStr(<<"en">>)
Nl == JStr(<<"nl">>)

\* The children with the given tag of each of the elements, in order.
RECURSIVE kids_of(_, _)
kids_of(els, tag) ==
  IF els = <<>> THEN <<>>
  ELSE SelectSeq(els[1].kids, LAMBDA k : k.tag = tag) \o kids_of(Tail(els), tag)

RECURSIVE findall_from(_, _)
findall_from(els, path) ==
  IF path = <<>> THEN els
  ELSE findall_from(kids_of(els, path[1]), Tail(path))

\* el.findall(path, NS) for a path of child steps.
findall(el, path) == findall_from(<<el>>, path)

\* el.find(path, NS): the first match or None; None has no find.
find(el, path) ==
  IF el = JNull THEN Err("AttributeError")
  ELSE IF findall(el, path) = <<>> THEN Ok(JNull)
  ELSE Ok(findall(el, path)[1])

\* el.find(tag, NS) behind "if el is None: continue".
find_or_none(el, tag) == IF el = JNull THEN JNull ELSE find(el, <<tag>>).v

\* (child.text or "").strip()
text_of(child) == Strip(IF child.text = JNull THEN <<>> ELSE child.text.v)

\* a or b
or_else(a, b) == IF Truthy(a) THEN a ELSE b

\* _text, lines 34-38: the first non-blank text among the children in lang.
RECURSIVE lang_text(_, _, _)
lang_text(children, i, lang) ==
  IF i > Len(children) THEN JNull
  ELSE IF children[i].lang = lang /\ text_of(children[i]) # <<>>
       THEN JStr(text_of(children[i]))
  ELSE lang_text(children, i + 1, lang)

\* _text, lines 39-44: the text of the first child when it is not blank.
first_text(children) ==
  IF children = <<>> THEN JNull ELSE non_blank(text_of(children[1]))

\* _text(el, path, lang)
_text(el, path, lang) ==
  IF el = JNull THEN JNull
  ELSE or_else(IF Truthy(lang) THEN lang_text(findall(el, path), 1, lang)
               ELSE JNull,
               first_text(findall(el, path)))

\* _text(el, path, lang="en") or _text(el, path, lang="nl") or _text(el, path)
text_en_nl_any(el, path) ==
  or_else(_text(el, path, En),
          or_else(_text(el, path, Nl), _text(el, path, JNull)))

\* "vocab.getty.edu/aat/" and the match of /aat/\d+ at position i.
AatMark == <<"vocab.getty.edu", "/", "aat", "/">>
aat_id_at(text, i) ==
  /\ i + 3 <= Len(text)
  /\ SubSeq(text, i, i + 2) = <<"/", "aat", "/">>
  /\ InSeq(Digits, text[i + 3])

\* aat_from without the test for an id after /aat/.
RECURSIVE aat_from_unvalidated(_, _)
aat_from_unvalidated(cids, i) ==
  IF i > Len(cids) THEN JNull
  ELSE IF Contains(text_of(cids[i]), AatMark) THEN JStr(text_of(cids[i]))
  ELSE aat_from_unvalidated(cids, i + 1)

\* _aat_uri, lines 65-71, from conceptID i on.
RECURSIVE aat_from(_, _)
aat_from(cids, i) ==
  IF i > Len(cids) THEN JNull
  ELSE IF /\ Contains(text_of(cids[i]), AatMark)
          /\ \E p \in 1..Len(text_of(cids[i])) : aat_id_at(text_of(cids[i]), p)
       THEN JStr(text_of(cids[i]))
  ELSE aat_from(cids, i + 1)

\* _aat_uri(concept_el)
_aat_uri(concept_el) ==
  IF concept_el = JNull THEN JNull
  ELSE aat_from(findall(concept_el, <<"conceptID">>), 1)

\* The number of hundredths in one unit of a float.
Scale == 100

\* _to_cm with the millimetre value returned as it is.
_to_cm_undivided(value, unit) ==
  IF Strip(Lower(unit)) = <<"c", "m">> THEN JNum(value)
  ELSE IF Strip(Lower(unit)) = <<"m", "m">> THEN JNum(value)
  ELSE JNull

\* _to_cm(value, unit), value in hundredths
_to_cm(value, unit) ==
  IF Strip(Lower(unit)) = <<"c", "m">> THEN JNum(value)
  ELSE IF Strip(Lower(unit)) = <<"m", "m">> THEN JNum(value \div 10)
  ELSE JNull

AllDigits(s) == \A i \in 1..Len(s) : InSeq(Digits, s[i])

\* int(s) for a string of digits.
RECURSIVE int_of(_)
int_of(s) ==
  IF s = <<>> THEN 0
  ELSE int_of(SubSeq(s, 1, Len(s) - 1)) * 10 + (IndexIn(Digits, s[Len(s)]) - 1)

\* The hundredths a fraction of up to two digits stands for.
frac_of(frac) ==
  IF frac = <<>> THEN 0
  ELSE IF Len(frac) = 1 THEN int_of(frac) * 10
  ELSE int_of(SubSeq(frac, 1, 2))

\* float(whole "." frac)
decimal_of(whole, frac) ==
  IF AllDigits(whole) /\ AllDigits(frac) /\ (whole # <<>> \/ frac # <<>>)
  THEN Ok(int_of(whole) * Scale + frac_of(frac))
  ELSE Err("ValueError")

\* float(s) for a text of digits, points and other characters, in
\* hundredths; ValueError for a text that is no decimal number.
float_of(s) ==
  IF FindFirst(s, <<".">>) = 0
  THEN IF s # <<>> /\ AllDigits(s) THEN Ok(int_of(s) * Scale)
       ELSE Err("ValueError")
  ELSE decimal_of(SubSeq(s, 1, FindFirst(s, <<".">>) - 1),
                  Drop(s, FindFirst(s, <<".">>)))

\* _YEAR_RE.search(s) from position i on: the first run of three digits,
\* taken with a fourth digit when one follows.
RECURSIVE year_from(_, _)
year_from(s, i) ==
  IF i + 2 > Len(s) THEN JNull
  ELSE IF AllDigits(SubSeq(s, i, i + 2))
       THEN JNum(int_of(SubSeq(s, i,
                               IF i + 3 <= Len(s) /\ InSeq(Digits, s[i + 3])
                               THEN i + 3 ELSE i + 2)))
  ELSE year_from(s, i + 1)

\* _parse_year with a zero for a string without a year.
_parse_year_or_zero(s) ==
  IF ~Truthy(s) THEN JNull
  ELSE IF year_from(s.v, 1) = JNull THEN JNum(0)
  ELSE year_from(s.v, 1)

\* _parse_year(s)
_parse_year(s) == IF ~Truthy(s) THEN JNull ELSE year_from(s.v, 1)


(***************************************************************************)
(* rijks/lido.py: LIDORecord                                               *)
(***************************************************************************)

\* The concatenation of the sequences F yields for the elements, in order
\* (a loop that appends zero or more results per element).
RECURSIVE Flatten(_)
Flatten(seqs) == IF seqs = <<>> THEN <<>> ELSE seqs[1] \o Flatten(Tail(seqs))
each(els, F(_)) == Flatten([i \in 1..Len(els) |-> F(els[i])])

\* descend without the None checks.
RECURSIVE descend_unguarded(_, _)
descend_unguarded(el, steps) ==
  IF steps = <<>> THEN Ok(el)
  ELSE Then(find(el, steps[1]), LAMBDA x : descend_unguarded(x, Tail(steps)))

\* x = el.find(step); if x is None: return None -- for each step in turn,
\* starting from an el that is itself checked for None first.
RECURSIVE descend(_, _)
descend(el, steps) ==
  IF el = JNull THEN Ok(JNull)
  ELSE IF steps = <<>> THEN Ok(el)
  ELSE Then(find(el, steps[1]), LAMBDA x : descend(x, Tail(steps)))

\* __init__, lines 106-119, for the two top-level sections.
record_of(el, desc_meta, admin_meta) ==
  [_el |-> el,
   _desc_meta |-> desc_meta,
   _admin_meta |-> admin_meta,
   _ident_wrap |-> IF desc_meta # JNull
                   THEN find(desc_meta, <<"objectIdentificationWrap">>).v
                   ELSE JNull,
   _event_wrap |-> IF desc_meta # JNull
                   THEN find(desc_meta, <<"eventWrap">>).v
                   ELSE JNull,
   _creation_event |-> JNull,
   _creation_event_searched |-> FALSE]

\* LIDORecord(el)
LIDORecord(el) ==
  record_of(el, find(el, <<"descriptiveMetadata">>).v,
            find(el, <<"administrativeMetadata">>).v)

CreationId == <<"expression_creation">>
CreationWord == <<"c", "r", "e", "a", "t", "i", "o", "n">>

\* Lines 136-143: the event type names a creation, by conceptID or by term.
is_creation(cid, term) ==
  \/ Truthy(cid) /\ Contains(cid.v, CreationId)
  \/ Truthy(term) /\ Contains(Lower(term.v), CreationWord)

\* Lines 129-143: the event when it is a creation event, else None.
event_if_creation(event, event_type) ==
  IF event = JNull \/ event_type = JNull THEN JNull
  ELSE IF is_creation(_text(event_type, <<"conceptID">>, JNull),
                      _text(event_type, <<"term">>, En))
       THEN event
  ELSE JNull

\* Lines 128-144: the first creation event from event set i on.
RECURSIVE search_creation(_, _)
search_creation(event_sets, i) ==
  IF i > Len(event_sets) THEN JNull
  ELSE IF event_if_creation(
            find(event_sets[i], <<"event">>).v,
            find_or_none(find(event_sets[i], <<"event">>).v, "eventType")) # JNull
       THEN find(event_sets[i], <<"event">>).v
  ELSE search_creation(event_sets, i + 1)

\* self._find_creation_event(): the value returned.
_find_creation_event(self) ==
  IF self._creation_event_searched THEN self._creation_event
  ELSE IF self._event_wrap = JNull THEN JNull
  ELSE search_creation(findall(self._event_wrap, <<"eventSet">>), 1)

\* The search that sets the flag and forgets to keep the event it found.
searched_without_event(self) == [self EXCEPT !._creation_event_searched = TRUE]

\* self after self._find_creation_event().
searched(self) ==
  [self EXCEPT !._creation_event_searched = TRUE,
               !._creation_event = _find_creation_event(self)]

\* inventory_number()
inventory_number(self) ==
  Then(descend(self._ident_wrap, <<<<"repositoryWrap", "repositorySet">>>>),
       LAMBDA repo : Ok(_text(repo, <<"workID">>, JNull)))

\* lido_rec_id()
lido_rec_id(self) == Ok(_text(self._el, <<"lidoRecID">>, JNull))

\* oai_identifier()
oai_identifier(self) ==
  Then(descend(self._admin_meta, <<<<"recordWrap">>, <<"recordInfoSet">>>>),
       LAMBDA info_set : Ok(_text(info_set, <<"recordInfoID">>, JNull)))

\* Lines 188-193: (en, nl), en taken without a language when both are None.
en_nl(en, nl, any) == IF en = JNull /\ nl = JNull THEN <<any, nl>> ELSE <<en, nl>>

bilingual(el, path) ==
  IF el = JNull THEN <<JNull, JNull>>
  ELSE en_nl(_text(el, path, En), _text(el, path, Nl), _text(el, path, JNull))

\* titles()
titles(self) ==
  Then(descend(self._ident_wrap, <<<<"titleWrap">>, <<"titleSet">>>>),
       LAMBDA title_set : Ok(bilingual(title_set, <<"appellationValue">>)))

\* descriptions()
descriptions(self) ==
  Then(descend(self._ident_wrap,
               <<<<"objectDescriptionWrap">>, <<"objectDescriptionSet">>>>),
       LAMBDA desc_set : Ok(bilingual(desc_set, <<"descriptiveNoteValue">>)))

\* object_type()
object_type(self) ==
  Then(descend(self._desc_meta,
               << <<"objectClassificationWrap">>, <<"objectWorkTypeWrap">>,
                  <<"objectWorkType">> >>),
       LAMBDA owt :
         Ok(IF owt = JNull THEN <<JNull, JNull, JNull>>
            ELSE <<_text(owt, <<"term">>, En), _text(owt, <<"term">>, Nl),
                   _aat_uri(owt)>>))

NoCreator ==
  [name |-> JNull, role |-> JNull, nationality |-> JNull, qualifier |-> JNull,
   birth_year |-> JNull, death_year |-> JNull]

\* Lines 270-277: a year of the actor's vital dates.
vital_year(vital, tag) ==
  IF vital = JNull THEN JNull ELSE _parse_year(_text(vital, <<tag>>, JNull))

\* Lines 258-293: the result for an actorInRole element.
creator_of(actor_el, actor, role_el) ==
  [name |-> IF actor = JNull THEN JNull
            ELSE text_en_nl_any(actor, <<"nameActorSet", "appellationValue">>),
   nationality |-> IF actor = JNull THEN JNull
                   ELSE text_en_nl_any(actor, <<"nationalityActor", "term">>),
   birth_year |-> IF actor = JNull THEN JNull
                  ELSE vital_year(find(actor, <<"vitalDatesActor">>).v,
                                  "earliestDate"),
   death_year |-> IF actor = JNull THEN JNull
                  ELSE vital_year(find(actor, <<"vitalDatesActor">>).v,
                                  "latestDate"),
   role |-> IF role_el = JNull THEN JNull
            ELSE text_en_nl_any(role_el, <<"term">>),
   qualifier |-> text_en_nl_any(actor_el, <<"attributionQualifierActor">>)]

\* creator()
creator(self) ==
  Then(descend(_find_creation_event(self), <<<<"eventActor", "actorInRole">>>>),
       LAMBDA actor_el :
         IF actor_el = JNull THEN Ok(NoCreator)
         ELSE Ok(creator_of(actor_el, find(actor_el, <<"actor">>).v,
                            find(actor_el, <<"roleActor">>).v)))

\* date_range()
date_range(self) ==
  Then(descend(_find_creation_event(self), <<<<"eventDate", "date">>>>),
       LAMBDA date_el :
         Ok(IF date_el = JNull THEN <<JNull, JNull>>
            ELSE <<_parse_year(_text(date_el, <<"earliestDate">>, JNull)),
                   _parse_year(_text(date_el, <<"latestDate">>, JNull))>>))


\* Lines 329-333: the entry of a termMaterialsTech element.
entry_of(term_el) ==
  [label_en |-> _text(term_el, <<"term">>, En),
   label_nl |-> _text(term_el, <<"term">>, Nl),
   aat_uri |-> _aat_uri(term_el)]

\* term_el.get(f"{L}type", "")
mt_type(term_el) == IF term_el.type = JNull THEN <<>> ELSE term_el.type.v

\* Lines 322-342: the two lists after one eventMaterialsTech whose
\* termMaterialsTech is term_el (None when a level is missing).
add_entry(acc, term_el) ==
  IF term_el = JNull THEN acc
  ELSE IF /\ ~Truthy(_text(term_el, <<"term">>, En))
          /\ ~Truthy(_text(term_el, <<"term">>, Nl))
       THEN acc
  ELSE IF Contains(mt_type(term_el), <<"technique">>)
       THEN [acc EXCEPT !.techniques = Append(@, entry_of(term_el))]
  ELSE [acc EXCEPT !.materials = Append(@, entry_of(term_el))]

RECURSIVE materials_from(_, _, _)
materials_from(emts, i, acc) ==
  IF i > Len(emts) THEN acc
  ELSE materials_from(emts, i + 1,
         add_entry(acc,
                   find_or_none(find(emts[i], <<"materialsTech">>).v,
                                "termMaterialsTech")))

\* _materials_and_techniques()
_materials_and_techniques(self) ==
  IF _find_creation_event(self) = JNull
  THEN [materials |-> <<>>, techniques |-> <<>>]
  ELSE materials_from(findall(_find_creation_event(self),
                              <<"eventMaterialsTech">>),
                      1, [materials |-> <<>>, techniques |-> <<>>])

\* materials()
materials(self) == Ok(_materials_and_techniques(self).materials)

\* techniques()
techniques(self) == Ok(_materials_and_techniques(self).techniques)

\* measurement_of with a zero in place of a value that does not parse.
measurement_of_zero(mtype, unit, value_str, extent) ==
  IF Truthy(mtype) /\ Truthy(value_str)
  THEN << [type |-> JStr(Lower(mtype.v)),
           value |-> IF float_of(value_str.v).ok THEN float_of(value_str.v).v
                     ELSE 0,
           unit |-> or_else(unit, EmptyStr),
           extent |-> extent] >>
  ELSE <<>>

\* Lines 393-403: what one measurementsSet appends to results.
measurement_of(mtype, unit, value_str, extent) ==
  IF Truthy(mtype) /\ Truthy(value_str)
  THEN IF float_of(value_str.v).ok
       THEN << [type |-> JStr(Lower(mtype.v)),
                value |-> float_of(value_str.v).v,
                unit |-> or_else(unit, EmptyStr),
                extent |-> extent] >>
       ELSE <<>>
  ELSE <<>>

\* Lines 375-403: the results of one objectMeasurements with its extent.
measurements_of(obj_meas, extent) ==
  each(findall(obj_meas, <<"measurementsSet">>),
       LAMBDA ms :
         measurement_of(text_en_nl_any(ms, <<"measurementType">>),
                        text_en_nl_any(ms, <<"measurementUnit">>),
                        _text(ms, <<"measurementValue">>, JNull),
                        extent))

\* Lines 370-403: the results of one objectMeasurementsSet.
set_dimensions(obj_meas) ==
  IF obj_meas = JNull THEN <<>>
  ELSE measurements_of(obj_meas,
                       text_en_nl_any(obj_meas, <<"extentMeasurements">>))

\* all_dimensions()
all_dimensions(self) ==
  Then(descend(self._ident_wrap, <<<<"objectMeasurementsWrap">>>>),
       LAMBDA meas_wrap :
         IF meas_wrap = JNull THEN Ok(<<>>)
         ELSE Ok(each(findall(meas_wrap, <<"objectMeasurementsSet">>),
                      LAMBDA meas_set :
                        set_dimensions(
                          find(meas_set, <<"objectMeasurements">>).v))))

Support == <<"s", "u", "p", "p", "o", "r", "t">>
Drager == <<"d", "r", "a", "g", "e", "r">>
Frame == <<"f", "r", "a", "m", "e">>
Lijst == <<"l", "i", "j", "s", "t">>
SightSize == <<"s", "i", "g", "h", "t", " ", "s", "i", "z", "e">>
Dagmaat == <<"d", "a", "g", "m", "a", "a", "t">>
Rand == <<"r", "a", "n", "d">>

_PRIMARY_EXTENTS == {Support, Drager}
_SKIP_EXTENTS == {Frame, Lijst, SightSize, Dagmaat, Rand}

Height == <<"h", "e", "i", "g", "h", "t">>
Width == <<"w", "i", "d", "t", "h">>
Breedte == <<"b", "r", "e", "e", "d", "t", "e">>
Depth == <<"d", "e", "p", "t", "h">>
Diepte == <<"d", "i", "e", "p", "t", "e">>

\* (d["extent"] or "").lower().strip()
extent_of(d) == Strip(Lower(IF Truthy(d.extent) THEN d.extent.v ELSE <<>>))

\* Frame-like extents grouped with the measurements that have no extent.
add_to_bucket_keeps_frames(acc, d, extent, cm) ==
  IF cm = JNull THEN acc
  ELSE IF extent \in _PRIMARY_EXTENTS
       THEN [acc EXCEPT !.support_dims = Put(@, d.type.v, cm)]
  ELSE IF extent = <<>> \/ extent \in _SKIP_EXTENTS
       THEN [acc EXCEPT !.no_extent_dims = Put(@, d.type.v, cm)]
  ELSE acc

\* Lines 424-434: the two groups after measurement d, cm its centimetres.
add_to_bucket(acc, d, extent, cm) ==
  IF cm = JNull THEN acc
  ELSE IF extent \in _SKIP_EXTENTS THEN acc
  ELSE IF extent \in _PRIMARY_EXTENTS
       THEN [acc EXCEPT !.support_dims = Put(@, d.type.v, cm)]
  ELSE IF extent = <<>>
       THEN [acc EXCEPT !.no_extent_dims = Put(@, d.type.v, cm)]
  ELSE acc

\* Lines 420-434: the loop over dims.
RECURSIVE buckets_from(_, _, _)
buckets_from(dims, i, acc) ==
  IF i > Len(dims) THEN acc
  ELSE buckets_from(dims, i + 1,
         add_to_bucket(acc, dims[i], extent_of(dims[i]),
                       _to_cm(dims[i].value, dims[i].unit.v)))

\* best = support_dims or no_extent_dims
best_of(acc) ==
  IF acc.support_dims # <<>> THEN acc.support_dims ELSE acc.no_extent_dims

\* Lines 438-442.
axes_of(best) ==
  << Lookup(best, Height, JNull),
     or_else(Lookup(best, Width, JNull), Lookup(best, Breedte, JNull)),
     or_else(Lookup(best, Depth, JNull), Lookup(best, Diepte, JNull)) >>

\* Lines 416-442 for the measurements dims.
primary_of(dims) ==
  IF dims = <<>> THEN <<JNull, JNull, JNull>>
  ELSE axes_of(best_of(buckets_from(dims, 1,
                 [support_dims |-> <<>>, no_extent_dims |-> <<>>])))

\* primary_dimensions_cm()
primary_dimensions_cm(self) ==
  Then(all_dimensions(self), LAMBDA dims : Ok(primary_of(dims)))


\* Lines 473/502: the stripped text of the first of the id elements, or None.
first_id(ids) == IF ids = <<>> THEN JNull ELSE non_blank(text_of(ids[1]))

\* Line 474: cid.get(f"{L}source") or None, for the first conceptID.
first_source(cids) ==
  IF cids = <<>> THEN JNull ELSE or_else(cids[1].source, JNull)

\* Lines 476-477, 504-505: the entry appended when it has a label or a uri.
subject_if(label, uri, scheme) ==
  IF Truthy(label) \/ Truthy(uri)
  THEN <<[label |-> label, uri |-> uri, scheme |-> scheme]>>
  ELSE <<>>

\* Lines 464-477
concept_subjects(subj) ==
  each(findall(subj, <<"subjectConcept">>),
       LAMBDA concept :
         subject_if(text_en_nl_any(concept, <<"term">>),
                    first_id(findall(concept, <<"conceptID">>)),
                    first_source(findall(concept, <<"conceptID">>))))

\* Lines 480-489
actor_subjects(subj) ==
  each(findall(subj, <<"subjectActor">>),
       LAMBDA subj_actor :
         IF find(subj_actor, <<"actor">>).v = JNull THEN <<>>
         ELSE subject_if(text_en_nl_any(find(subj_actor, <<"actor">>).v,
                                        <<"nameActorSet", "appellationValue">>),
                         JNull, JStr(<<"person">>)))

\* Lines 492-505
place_subjects(subj) ==
  each(findall(subj, <<"subjectPlace">>),
       LAMBDA subj_place :
         IF find(subj_place, <<"place">>).v = JNull THEN <<>>
         ELSE subject_if(text_en_nl_any(find(subj_place, <<"place">>).v,
                                        <<"namePlaceSet", "appellationValue">>),
                         first_id(findall(find(subj_place, <<"place">>).v,
                                          <<"placeID">>)),
                         JStr(<<"place">>)))

\* Lines 508-513
event_subjects(subj) ==
  each(findall(subj, <<"subjectEvent">>),
       LAMBDA subj_event :
         IF find(subj_event, <<"event">>).v = JNull THEN <<>>
         ELSE subject_if(_text(find(subj_event, <<"event">>).v,
                               <<"eventName", "appellationValue">>, JNull),
                         JNull, JStr(<<"event">>)))

\* Lines 459-513: the results of one subjectSet.
set_subjects(subj) ==
  IF subj = JNull THEN <<>>
  ELSE concept_subjects(subj) \o actor_subjects(subj)
         \o place_subjects(subj) \o event_subjects(subj)

\* subjects()
subjects(self) ==
  Then(descend(self._desc_meta, <<<<"objectRelationWrap">>, <<"subjectWrap">>>>),
       LAMBDA subj_wrap :
         IF subj_wrap = JNull THEN Ok(<<>>)
         ELSE Ok(each(findall(subj_wrap, <<"subjectSet">>),
                      LAMBDA subj_set :
                        set_subjects(find(subj_set, <<"subject">>).v))))

\* Lines 535-536
inscription_if(text, desc) ==
  IF Truthy(text) \/ Truthy(desc)
  THEN <<[text |-> text, description |-> desc]>>
  ELSE <<>>

\* inscriptions()
inscriptions(self) ==
  Then(descend(self._ident_wrap, <<<<"inscriptionsWrap">>>>),
       LAMBDA insc_wrap :
         IF insc_wrap = JNull THEN Ok(<<>>)
         ELSE Ok(each(findall(insc_wrap, <<"inscriptions">>),
                      LAMBDA insc :
                        inscription_if(
                          _text(insc, <<"inscriptionTranscription">>, JNull),
                          text_en_nl_any(insc, <<"inscriptionDescription",
                                                 "descriptiveNoteValue">>)))))

\* image_url()
image_url(self) ==
  Then(descend(self._admin_meta,
               << <<"resourceWrap">>, <<"resourceSet">>,
                  <<"resourceRepresentation">> >>),
       LAMBDA rep : Ok(or_else(_text(rep, <<"linkResource">>, JNull), JNull)))

\* Lines 571-575: the first non-blank conceptID text from i on.
RECURSIVE first_non_blank(_, _)
first_non_blank(cids, i) ==
  IF i > Len(cids) THEN JNull
  ELSE IF text_of(cids[i]) # <<>> THEN JStr(text_of(cids[i]))
  ELSE first_non_blank(cids, i + 1)

\* rights_url()
rights_url(self) ==
  Then(descend(self._admin_meta,
               << <<"rightsWorkWrap">>, <<"rightsWorkSet">>,
                  <<"rightsType">> >>),
       LAMBDA rights_type :
         IF rights_type = JNull THEN Ok(JNull)
         ELSE Ok(first_non_blank(findall(rights_type, <<"conceptID">>), 1)))

\* credit_line()
credit_line(self) ==
  Then(descend(self._admin_meta, <<<<"recordWrap">>, <<"recordRights">>>>),
       LAMBDA record_rights : Ok(_text(record_rights, <<"creditLine">>, JNull)))

\* record_metadata_date()
record_metadata_date(self) ==
  Then(descend(self._admin_meta, <<<<"recordWrap">>, <<"recordInfoSet">>>>),
       LAMBDA info_set : Ok(_text(info_set, <<"recordMetadataDate">>, JNull)))

\* The public accessors.
Accessors ==
  { "inventory_number", "lido_rec_id", "oai_identifier", "titles",
    "descriptions", "object_type", "creator", "date_range", "materials",
    "techniques", "all_dimensions", "primary_dimensions_cm", "subjects",
    "inscriptions", "image_url", "rights_url", "credit_line",
    "record_metadata_date" }

\* The accessors that call self._find_creation_event().
EventAccessors == {"creator", "date_range", "materials", "techniques"}

\* getattr(self, name)(): the value returned or the exception raised.
call_accessor(self, name) ==
  CASE name = "inventory_number" -> inventory_number(self)
    [] name = "lido_rec_id" -> lido_rec_id(self)
    [] name = "oai_identifier" -> oai_identifier(self)
    [] name = "titles" -> titles(self)
    [] name = "descriptions" -> descriptions(self)
    [] name = "object_type" -> object_type(self)
    [] name = "creator" -> creator(self)
    [] name = "date_range" -> date_range(self)
    [] name = "materials" -> materials(self)
    [] name = "techniques" -> techniques(self)
    [] name = "all_dimensions" -> all_dimensions(self)
    [] name = "primary_dimensions_cm" -> primary_dimensions_cm(self)
    [] name = "subjects" -> subjects(self)
    [] name = "inscriptions" -> inscriptions(self)
    [] name = "image_url" -> image_url(self)
    [] name = "rights_url" -> rights_url(self)
    [] name = "credit_line" -> credit_line(self)
    [] name = "record_metadata_date" -> record_metadata_date(self)

\* self after the call.
after_accessor(self, name) ==
  IF name \in EventAccessors THEN searched(self) ELSE self

(***************************************************************************)
(* Linked Art documents the converter is run on                            *)
(***************************************************************************)

MaxTail == 2
MaxEntries == 2
MaxRights == 2
NumSeeds == 3

SeqsUpTo(S, n) == UNION {[1..k -> S] : k \in 0..n}

\* A dict from a function on keys; NoKeys is the dict without keys.
NoKeys == <<>>
Cls(uri) == JList(<<JDict("id" :> JStr(uri))>>)
NestedCls(outer, inner) ==
  JList(<<JDict("id" :> JStr(outer) @@ "classified_as" :> Cls(inner))>>)
ContentNode(content, cls) ==
  JDict("content" :> JStr(content) @@ "classified_as" :> cls)

\* Document ids: the object prefix, a near miss of it, another URL or
\* nothing, followed by a short tail.
IdHeads ==
  { <<>>, OBJECT_PREFIX, SubSeq(OBJECT_PREFIX, 1, Len(OBJECT_PREFIX) - 1),
    <<"http:", "/", "/", "x.org", "/">> }
IdTails == SeqsUpTo({"/", "a", "b"}, MaxTail)
IdDocs ==
  {JDict("id" :> JStr(h \o t)) : h \in IdHeads, t \in IdTails}
    \cup {EmptyDict}

BaseId == JStr(OBJECT_PREFIX \o <<"x">>)
WithId(f) == JDict("id" :> BaseId @@ f)

\* identified_by entries: a Name or an Identifier, with blank or non-blank
\* content, unclassified or classified.
IdentEntries ==
  { JDict("type" :> JStr(ty) @@ "content" :> JStr(c) @@ "classified_as" :> cl) :
      ty \in {<<"Name">>, <<"Identifier">>},
      c \in {<<" ">>, <<"a">>, <<" ", "b", " ">>},
      cl \in {EmptyList, Cls(AAT_PREFERRED_TERM), Cls(AAT_PRIMARY_TITLE)} }
TitleDocs ==
  { WithId("identified_by" :> JList(q) @@ lbl) :
      q \in SeqsUpTo(IdentEntries, MaxEntries),
      lbl \in {NoKeys, "_label" :> JStr(<<"L">>)} }

\* subject_to entries.
RightsEntries ==
  { EmptyDict,
    JDict("classified_as" :> EmptyList),
    JDict("classified_as" :> Cls(AAT_CC0)),
    JDict("classified_as" :> Cls(AAT_COPYRIGHT)),
    JDict("classified_as" :> NestedCls(AAT_COPYRIGHT, AAT_CC0)),
    JDict("classified_as" :> Cls(LOCAL_RIGHTS_STATEMENT)
          @@ "referred_to_by" :>
               JList(<<JDict("content" :> JStr(<<"In Copyright">>))>>)) }
RightsDocs ==
  {WithId("subject_to" :> JList(q)) : q \in SeqsUpTo(RightsEntries, MaxRights)}
    \cup {WithId(NoKeys)}

\* A null, a number or a string where the converter expects a list or a
\* dict, at the top level and inside a measurement or the production.
BadValues == {JNull, JNum(5), JStr(<<"x">>)}
StructureKeys ==
  { "identified_by", "referred_to_by", "classified_as", "dimension",
    "produced_by", "carries", "current_keeper", "current_location",
    "subject_of", "subject_to", "representation" }
HeightDim(extra) ==
  JDict("classified_as" :> Cls(AAT_HEIGHT) @@ "value" :> JNum(246) @@ extra)
WidthDim(extra) ==
  JDict("classified_as" :> Cls(AAT_WIDTH) @@ "value" :> JNum(196) @@ extra)
MalformedDocs ==
  {WithId(k :> b) : k \in StructureKeys, b \in BadValues}
    \cup {WithId("dimension" :> JList(<<HeightDim(k :> b)>>)) :
            k \in {"unit", "member_of"}, b \in BadValues}
    \cup {WithId("produced_by" :> JDict(k :> b)) :
            k \in {"timespan", "carried_out_by"}, b \in BadValues}

Member(label) == "member_of" :> JList(<<JDict("_label" :> JStr(label))>>)
Unit(label) == "unit" :> JDict("_label" :> JStr(<<label>>))
Technique(label) ==
  "assigned_by" :>
    JList(<<JDict("technique" :> JList(<<JDict("_label" :> JStr(label))>>))>>)

DimensionSections ==
  { NoKeys,
    "dimension" :>
      JList(<< HeightDim(Member(LabelSheet) @@ Unit("Centimeters")),
               WidthDim(Member(LabelImage) @@ Unit("Centimeters")),
               HeightDim(Member(LabelSetPrefix \o <<" ", "F", "o">>)
                         @@ Unit("Inches")),
               WidthDim(NoKeys) >>),
    "dimension" :> JList(<<JDict("classified_as" :> Cls(AAT_HEIGHT))>>) }

ReferredSections ==
  { NoKeys,
    "referred_to_by" :>
      JList(<< JDict("content" :> JStr(<<"24 x 19 cm">>)
                     @@ "classified_as" :> Cls(AAT_DIMENSIONS_DESC)
                     @@ Technique(LabelImage)),
               ContentNode(<<"plain">>, Cls(AAT_DESCRIPTION)),
               JDict("content" :> JStr(<<"rich">>)
                     @@ "classified_as" :> Cls(AAT_DESCRIPTION)
                     @@ "format" :> JStr(<<"text/markdown">>)),
               ContentNode(<<"Print">>, Cls(AAT_OBJECT_TYPE)) >>),
    "referred_to_by" :>
      JList(<< ContentNode(<<"10 cm">>, Cls(AAT_DIMENSIONS_DESC)),
               JDict("content" :> JStr(<<"5 cm">>)
                     @@ "classified_as" :> Cls(AAT_DIMENSIONS_DESC)
                     @@ Technique(<<"A", "l", "b", "u", "m">>)) >>) }

ProductionSections ==
  { NoKeys,
    "produced_by" :>
      JDict("carried_out_by" :>
              JList(<< JDict("_label" :> JStr(<<"AK">>)
                             @@ "id" :> JStr(<<"https:", "/", "/", "data.getty.edu",
                                               "/", "person", "/", "k">>)
                             @@ "referred_to_by" :>
                                  JList(<<ContentNode(<<"Photographer">>,
                                                      Cls(LOCAL_PRODUCER_ROLE))>>)),
                       JDict("_label" :> JStr(<<"B">>)) >>)
            @@ "referred_to_by" :>
                 JList(<<ContentNode(<<"American">>,
                                     Cls(LOCAL_PRODUCER_NAT_DATES))>>)),
    "produced_by" :>
      JDict("carried_out_by" :>
              JList(<<JDict("id" :> JStr(<<"https:", "/", "/", "data.getty.edu",
                                          "/", "group", "/", "g">>))>>)),
    "produced_by" :>
      JDict("referred_to_by" :>
              JList(<<ContentNode(<<"Unknown maker">>, Cls(LOCAL_PRODUCER_NAME))>>)),
    "produced_by" :>
      JDict("referred_to_by" :>
              JList(<<ContentNode(<<"French">>, Cls(LOCAL_PRODUCER_NAT_DATES))>>)),
    "produced_by" :>
      JDict("timespan" :>
              JDict("identified_by" :> JList(<<JDict("content" :> JStr(<<"1980">>))>>)
                    @@ "begin_of_the_begin" :> JStr(<<"1980-01-01T00:00:00">>)
                    @@ "end_of_the_end" :> EmptyStr)) }

HomepageId ==
  <<"https:", "/", "/", "www.", "getty.edu", "/", "art", "/", "collection", "/",
    "object", "/", "108FPV">>
ManifestId ==
  <<"https:", "/", "/", "media.getty.edu", "/", "iiif", "/", "manifest", "/", "m">>

SubjectOfSections ==
  { NoKeys,
    "subject_of" :>
      JList(<< JDict("id" :> JStr(HomepageId)),
               JDict("id" :> JStr(ManifestId)
                     @@ "classified_as" :> Cls(LOCAL_IIIF_MANIFEST)) >>),
    "subject_of" :>
      JList(<< JDict("classified_as" :> Cls(LOCAL_IIIF_MANIFEST)),
               JDict("id" :> JStr(ManifestId)) >>) }

RepresentationSections ==
  { NoKeys,
    "representation" :> JList(<<JDict("id" :> JStr(<<"https:", "/", "/", "img">>))>>),
    "representation" :> JList(<<EmptyDict>>) }

OtherSections ==
  { NoKeys,
    "_label" :> EmptyStr,
    "classified_as" :>
         JList(<< JDict("_label" :> JStr(<<"Photographs">>)
                        @@ "classified_as" :> Cls(AAT_CLASSIFICATION_CATEGORY)),
                  JDict("_label" :> JStr(<<"Other">>)) >>)
      @@ "carries" :>
           JList(<< ContentNode(<<"signed">>, Cls(AAT_SIGNATURE)),
                    ContentNode(<<" ">>, Cls(AAT_INSCRIPTION)) >>)
      @@ "current_keeper" :> JList(<<EmptyDict, JDict("_label" :> JStr(<<"Dept">>))>>)
      @@ "current_location" :>
           JDict("identified_by" :> JList(<<JDict("content" :> JStr(<<"Storage">>))>>))
      @@ "identified_by" :>
           JList(<< ContentNode(SLUG_URN \o <<"108FPV">>, Cls(LOCAL_SLUG)),
                    ContentNode(<<"99.XM.42.4">>, Cls(AAT_ACCESSION_NUMBER)) >>) }

RichDocs ==
  { WithId(dm @@ rf @@ pr @@ so @@ rp @@ ot) :
      dm \in DimensionSections, rf \in ReferredSections,
      pr \in ProductionSections, so \in SubjectOfSections,
      rp \in RepresentationSections, ot \in OtherSections }

LinkedArtDocs == IdDocs \cup TitleDocs \cup RightsDocs \cup MalformedDocs \cup RichDocs

(***************************************************************************)
(* The converter as a state machine: a document is converted, may be       *)
(* converted again, and a returned record may be serialized.               *)
(***************************************************************************)

VARIABLES raw, obj, again, d, doc, rec, ret, arg,
          feed, rijks_harvest_state, rijks_objects, rijks_object_sets,
          run, seen,
          getty_objects, getty_object_index, clock, hydrate

\* The variables of the LIDO record and of the functions applied on their own.
lido_vars == <<doc, rec, ret, arg>>

\* The variables of the OAI-PMH harvest: the pages the endpoint serves, the
\* three tables the harvest writes, the locals of the run in progress, and
\* what has been seen of the harvests so far.
harvest_vars ==
  <<feed, rijks_harvest_state, rijks_objects, rijks_object_sets, run, seen>>

\* The tables of the Getty database, the time and the hydration under way.
getty_vars == <<getty_objects, getty_object_index, clock, hydrate>>

vars == <<raw, obj, again, d, lido_vars, harvest_vars, getty_vars>>

\* No call has been made yet.
NotCalled == [ok |-> FALSE, err |-> "NotCalled"]
Returned(r) == r.ok
Raised(r) == ~r.ok /\ r.err # "NotCalled"

\* No accessor called yet.  A call records its name, whether the creation
\* event had been searched when it was made (cached), and what it returned.
NoCall == [name |-> "", cached |-> FALSE, out |-> NotCalled]

\* No LIDO record is at hand, and no Linked Art document.
NoLido == doc = JNull /\ rec = JNull /\ ret = NoCall /\ arg = JNull
\* No harvest: nothing is served, the tables are empty, no run was made.
NoHarvest ==
  /\ feed = <<>>
  /\ rijks_harvest_state = <<>>
  /\ rijks_objects = <<>>
  /\ rijks_object_sets = {}
  /\ run = [pc |-> "idle"]
  /\ seen = <<>>

\* No Getty database: the tables are empty, the time stands, no hydration.
NoGetty ==
  /\ getty_objects = <<>>
  /\ getty_object_index = <<>>
  /\ clock = 0
  /\ hydrate = [pc |-> "idle"]

NoLinkedArt ==
  raw = EmptyDict /\ obj = NotCalled /\ again = NotCalled /\ d = NotCalled

InitLinkedArt ==
  /\ raw \in LinkedArtDocs
  /\ obj = NotCalled
  /\ again = NotCalled
  /\ d = NotCalled
  /\ NoLido
  /\ NoHarvest
  /\ NoGetty

\* obj = convert(raw), in a process with some string-hash seed.
Convert ==
  /\ obj = NotCalled
  /\ \E h \in 0..(NumSeeds - 1) : obj' = convert(raw, h)
  /\ UNCHANGED <<raw, again, d, lido_vars, harvest_vars, getty_vars>>

\* A later convert(raw) of the same document, possibly in another process.
Reconvert ==
  /\ obj # NotCalled
  /\ again = NotCalled
  /\ \E h \in 0..(NumSeeds - 1) : again' = convert(raw, h)
  /\ UNCHANGED <<raw, obj, d, lido_vars, harvest_vars, getty_vars>>

\* d = obj.to_dict()
ToDict ==
  /\ Returned(obj)
  /\ d = NotCalled
  /\ d' = Ok(GettyObject_to_dict(obj.v))
  /\ UNCHANGED <<raw, obj, again, lido_vars, harvest_vars, getty_vars>>

NextLinkedArt == Convert \/ Reconvert \/ ToDict

SpecLinkedArt == InitLinkedArt /\ [][NextLinkedArt]_vars


(***************************************************************************)
(* LIDO documents                                                          *)
(***************************************************************************)

\* The most objectMeasurementsSet elements of a document of measurements,
\* and the most events that precede the creation event of a full record.
MaxSets == 2
MaxOther == 1

E(tag, kids) == Element(tag, JNull, JNull, kids)
T(tag, lang, text) == Element(tag, lang, JStr(text), <<>>)

Year1606 == <<"1", "6", "0", "6">>
Year1642 == <<"c", ".", " ", "1", "6", "4", "2">>
Year1669 == <<"1", "6", "6", "9", "-", "1", "0", "-", "0", "4">>
AatPainting == <<"http://", "vocab.getty.edu", "/", "aat", "/", "3", "0", "0">>

ClassificationWrap ==
  E("objectClassificationWrap",
    <<E("objectWorkTypeWrap",
        <<E("objectWorkType",
            << T("conceptID", JNull, AatPainting),
               T("term", En, <<"painting">>),
               T("term", Nl, <<"schilderij">>) >>)>>)>>)

MeasurementsWrap(sets) == E("objectMeasurementsWrap", sets)

\* One objectMeasurementsSet holding one measurement; extent and unit are
\* texts or None (element absent).
MeasurementsSet(extent, type, unit, value) ==
  E("objectMeasurementsSet",
    <<E("objectMeasurements",
        (IF extent = JNull THEN <<>>
         ELSE <<T("extentMeasurements", En, extent.v)>>)
        \o <<E("measurementsSet",
               <<T("measurementType", En, type)>>
               \o (IF unit = JNull THEN <<>>
                   ELSE <<T("measurementUnit", En, unit.v)>>)
               \o <<T("measurementValue", JNull, value)>>)>>)>>)

IdentificationWrap(sets) ==
  E("objectIdentificationWrap",
    << E("titleWrap",
         <<E("titleSet",
             << T("appellationValue", En, <<"The Night Watch">>),
                T("appellationValue", Nl, <<"De Nachtwacht">>) >>)>>),
       E("inscriptionsWrap",
         <<E("inscriptions",
             << T("inscriptionTranscription", JNull, <<"Rembrandt f 1642">>),
                E("inscriptionDescription",
                  <<T("descriptiveNoteValue", En, <<"signature">>)>>) >>)>>),
       E("repositoryWrap",
         <<E("repositorySet", <<T("workID", JNull, <<"SK-C-5">>)>>)>>),
       E("objectDescriptionWrap",
         <<E("objectDescriptionSet",
             << T("descriptiveNoteValue", En, <<"Militia company">>),
                T("descriptiveNoteValue", Nl, <<"Schutters">>) >>)>>),
       MeasurementsWrap(sets) >>)

EventActor(name) ==
  E("eventActor",
    <<E("actorInRole",
        << E("actor",
             << E("nameActorSet", <<T("appellationValue", En, name)>>),
                E("nationalityActor", <<T("term", En, <<"Dutch">>)>>),
                E("vitalDatesActor",
                  << T("earliestDate", JNull, Year1606),
                     T("latestDate", JNull, Year1669) >>) >>),
           E("roleActor", <<T("term", En, <<"painter">>)>>),
           T("attributionQualifierActor", En, <<"attributed to">>) >>)>>)

\* An eventSet whose event has the given type and actor name.
EventSet(type_id, type_term, name, material_type) ==
  E("eventSet",
    <<E("event",
        << E("eventType",
             << T("conceptID", JNull, type_id), T("term", En, type_term) >>),
           EventActor(name),
           E("eventDate",
             <<E("date",
                 << T("earliestDate", JNull, Year1642),
                    T("latestDate", JNull, Year1642) >>)>>),
           E("eventMaterialsTech",
             <<E("materialsTech",
                 <<[E("termMaterialsTech",
                      << T("conceptID", JNull, AatPainting),
                         T("term", En, <<"oil paint">>) >>)
                    EXCEPT !.type = JStr(material_type)]>>)>>) >>)>>)

CreationSet ==
  EventSet(<<"http://terminology.lido-schema.org/", "expression_creation">>,
           <<"C", "r", "e", "a", "t", "i", "o", "n">>, <<"Rembrandt">>,
           <<"material">>)
OtherSet ==
  EventSet(<<"http://terminology.lido-schema.org/", "lido00228">>,
           <<"A", "c", "q", "u", "i", "s", "i", "t", "i", "o", "n">>,
           <<"City of Amsterdam">>, <<"technique">>)

RelationWrap ==
  E("objectRelationWrap",
    <<E("subjectWrap",
        <<E("subjectSet",
            <<E("subject",
                << E("subjectConcept",
                     << [T("conceptID", JNull, <<"45(+26)">>)
                           EXCEPT !.source = JStr(<<"iconclass">>)],
                        T("term", En, <<"militia">>) >>),
                   E("subjectActor",
                     <<E("actor",
                         <<E("nameActorSet",
                             <<T("appellationValue", En,
                                 <<"Banninck Cocq">>)>>)>>)>>),
                   E("subjectPlace",
                     <<E("place",
                         << T("placeID", JNull, <<"geo:amsterdam">>),
                            E("namePlaceSet",
                              <<T("appellationValue", En,
                                  <<"Amsterdam">>)>>) >>)>>),
                   E("subjectEvent",
                     <<E("event",
                         <<E("eventName",
                             <<T("appellationValue", JNull,
                                 <<"parade">>)>>)>>)>>) >>)>>)>>)>>)

AdministrativeMetadata ==
  E("administrativeMetadata",
    << E("rightsWorkWrap",
         <<E("rightsWorkSet",
             <<E("rightsType",
                 <<T("conceptID", JNull, <<"https://creativecommons.org/",
                                           "publicdomain">>)>>)>>)>>),
       E("recordWrap",
         << E("recordInfoSet",
              << T("recordInfoID", JNull, <<"oai:rijksmuseum.nl:SK-C-5">>),
                 T("recordMetadataDate", JNull, <<"2024-01-01">>) >>),
            E("recordRights", <<T("creditLine", JNull, <<"On loan">>)>>) >>),
       E("resourceWrap",
         <<E("resourceSet",
             <<E("resourceRepresentation",
                 <<T("linkResource", JNull, <<"https://lh3/img">>)>>)>>)>>) >>)

\* others repetitions of OtherSet.
RECURSIVE OtherSets(_)
OtherSets(others) ==
  IF others = 0 THEN <<>> ELSE <<OtherSet>> \o OtherSets(others - 1)

\* A record with every section, whose creation event follows the given
\* number of other events.
FullRecord(others) ==
  E("lido",
    << T("lidoRecID", JNull, <<"NL-AsdRM/lido/6813">>),
       E("descriptiveMetadata",
         << ClassificationWrap,
            IdentificationWrap(
              <<MeasurementsSet(JStr(Support), Height, JStr(<<"c", "m">>),
                                <<"3", "7", "9">>)>>),
            E("eventWrap", OtherSets(others) \o <<CreationSet>>),
            RelationWrap >>),
       AdministrativeMetadata >>)

\* The places of the descendants of el, as paths of child positions.
RECURSIVE Addresses(_)
Addresses(el) ==
  UNION { {<<i>>} \cup {<<i>> \o a : a \in Addresses(el.kids[i])} :
          i \in 1..Len(el.kids) }

\* el without the descendant at the given place.
RECURSIVE PruneAt(_, _)
PruneAt(el, place) ==
  IF Len(place) = 1 THEN [el EXCEPT !.kids = RemoveAt(@, place[1])]
  ELSE [el EXCEPT !.kids[place[1]] = PruneAt(@, Tail(place))]

\* The full records and each of them with one element removed.
LidoDocs ==
  UNION { {FullRecord(n)}
            \cup {PruneAt(FullRecord(n), a) : a \in Addresses(FullRecord(n))} :
          n \in 0..MaxOther }


Cm == <<"c", "m">>

\* Extent texts: none, support-like, frame-like and one of neither kind.
ExtentTexts ==
  << JNull,
     JStr(Support),
     JStr(<<"D", "r", "a", "g", "e", "r", " ">>),
     JStr(<<"F", "r", "a", "m", "e">>),
     JStr(Lijst),
     JStr(<<"S", "i", "g", "h", "t", " ", "s", "i", "z", "e">>),
     JStr(Dagmaat),
     JStr(Rand),
     JStr(<<"m", "o", "u", "n", "t">>) >>

Mm == <<"m", "m">>
MmSpaced == <<"M", "M", " ">>
Inch == <<"i", "n">>
HeightText == <<"H", "e", "i", "g", "h", "t">>

PoolEntry(extent, type, unit) == [extent |-> extent, type |-> type, unit |-> unit]

\* The measurements a document is built from: 246 mm and 30.5 cm; a height
\* in cm under each extent and a width under three; measurements in
\* millimetres, in inches and without a unit; and the other axis types.
DimPool ==
  << PoolEntry(JStr(Support), Height, JStr(Mm)),
     PoolEntry(JNull, Width, JStr(Cm)) >>
  \o [i \in 1..Len(ExtentTexts) |->
        PoolEntry(ExtentTexts[i], HeightText, JStr(Cm))]
  \o << PoolEntry(ExtentTexts[2], Width, JStr(Cm)),
        PoolEntry(ExtentTexts[4], Width, JStr(Cm)),
        PoolEntry(JNull, Height, JStr(MmSpaced)),
        PoolEntry(JStr(Support), Width, JStr(Inch)),
        PoolEntry(JNull, Height, JStr(Inch)),
        PoolEntry(JStr(Support), Height, JNull),
        PoolEntry(JNull, Width, JNull),
        PoolEntry(JStr(Support), Breedte, JStr(Cm)),
        PoolEntry(JNull, Breedte, JStr(Cm)),
        PoolEntry(JStr(Support), Depth, JStr(Cm)),
        PoolEntry(JNull, Diepte, JStr(Mm)) >>

\* The value text of pool entry i: 246, 30.5, then a number of its own.
ValueText(i) ==
  IF i = 1 THEN <<"2", "4", "6">>
  ELSE IF i = 2 THEN <<"3", "0", ".", "5">>
  ELSE <<Digits[((10 + i) \div 10) + 1], Digits[((10 + i) % 10) + 1]>>

PoolSet(i) ==
  MeasurementsSet(DimPool[i].extent, DimPool[i].type, DimPool[i].unit,
                  ValueText(i))

\* The sequences of at most n pool positions.
RECURSIVE PoolSeqs(_)
PoolSeqs(n) ==
  IF n = 0 THEN {<<>>}
  ELSE PoolSeqs(n - 1)
         \cup {Append(q, i) : q \in PoolSeqs(n - 1), i \in 1..Len(DimPool)}

\* A record whose only content is the given measurement sets.
DimensionRecord(q) ==
  E("lido",
    <<E("descriptiveMetadata",
        <<E("objectIdentificationWrap",
            <<MeasurementsWrap([k \in 1..Len(q) |-> PoolSet(q[k])])>>)>>)>>)

DimensionDocs == {DimensionRecord(q) : q \in PoolSeqs(MaxSets)}

(***************************************************************************)
(* The LIDO record as a state machine: rec = LIDORecord(doc), then any     *)
(* accessor calls in any order; ret holds the last call and its outcome.   *)
(***************************************************************************)

\* ret.out = getattr(rec, name)()
Call(name) ==
  /\ ret' = [name |-> name, cached |-> rec._creation_event_searched,
             out |-> call_accessor(rec, name)]
  /\ rec' = after_accessor(rec, name)
  /\ UNCHANGED <<doc, arg, raw, obj, again, d, harvest_vars, getty_vars>>

InitLido ==
  /\ doc \in LidoDocs
  /\ rec = LIDORecord(doc)
  /\ ret = NoCall
  /\ arg = JNull
  /\ NoLinkedArt
  /\ NoHarvest
  /\ NoGetty

NextLido == \E name \in Accessors : Call(name)

SpecLido == InitLido /\ [][NextLido]_vars

InitLidoDims ==
  /\ doc \in DimensionDocs
  /\ rec = LIDORecord(doc)
  /\ ret = NoCall
  /\ arg = JNull
  /\ NoLinkedArt
  /\ NoHarvest
  /\ NoGetty

NextLidoDims ==
  \E name \in {"all_dimensions", "primary_dimensions_cm"} : Call(name)

SpecLidoDims == InitLidoDims /\ [][NextLidoDims]_vars


(***************************************************************************)
(* _text on its own: an element with some appellationValue children, each  *)
(* with a language or none and a text that may be missing or blank.        *)
(***************************************************************************)

MaxCands == 2

Value == "appellationValue"
Langs == {En, Nl, JNull}
Texts == {JNull, JStr(<<" ">>), JStr(<<" ", "a", " ">>), JStr(<<"b">>)}

Candidates == {Element(Value, lang, text, <<>>) : lang \in Langs, text \in Texts}
CandidateSeqs == UNION {[1..n -> Candidates] : n \in 0..MaxCands}
TextEls == {Element("titleSet", JNull, JNull, kids) : kids \in CandidateSeqs}

\* ret.out = _text(doc, "lido:appellationValue", lang)
Text(lang) ==
  /\ arg' = lang
  /\ ret' = [name |-> "_text", cached |-> FALSE,
             out |-> Ok(_text(doc, <<Value>>, lang))]
  /\ UNCHANGED <<doc, rec, raw, obj, again, d, harvest_vars, getty_vars>>

InitText ==
  /\ doc \in TextEls
  /\ rec = JNull
  /\ ret = NoCall
  /\ arg = JNull
  /\ NoLinkedArt
  /\ NoHarvest
  /\ NoGetty

NextText == \E lang \in Langs : Text(lang)

SpecText == InitText /\ [][NextText]_vars


(***************************************************************************)
(* Records whose titles, descriptions and creator hold the same values in  *)
(* several languages: each value has a language or none and a text that    *)
(* may be blank.                                                           *)
(***************************************************************************)

LangTexts == {JStr(<<" ">>), JStr(<<" ", "a", " ">>), JStr(<<"b">>)}
LangValues ==
  {Element(Value, lang, text, <<>>) : lang \in Langs, text \in LangTexts}
LangValueSeqs == UNION {[1..n -> LangValues] : n \in 0..MaxCands}

\* The values under another tag.
Retag(cs, tag) == [i \in DOMAIN cs |-> [cs[i] EXCEPT !.tag = tag]]

\* A set of values in English and Dutch that follows the first set.
SecondSet(tag, value_tag) ==
  E(tag, <<T(value_tag, En, <<"c">>), T(value_tag, Nl, <<"d">>)>>)

\* The record with the values cs as its titles, its descriptions and the
\* name, nationality, role and qualifier of its creator; with a second
\* titleSet and objectDescriptionSet when more.
LangRecord(cs, more) ==
  E("lido",
    <<E("descriptiveMetadata",
        << E("objectIdentificationWrap",
             << E("titleWrap",
                  <<E("titleSet", cs)>>
                  \o (IF more THEN <<SecondSet("titleSet", Value)>>
                      ELSE <<>>)),
                E("objectDescriptionWrap",
                  <<E("objectDescriptionSet",
                      Retag(cs, "descriptiveNoteValue"))>>
                  \o (IF more
                      THEN <<SecondSet("objectDescriptionSet",
                                       "descriptiveNoteValue")>>
                      ELSE <<>>)) >>),
           E("eventWrap",
             <<E("eventSet",
                 <<E("event",
                     << E("eventType",
                          <<T("conceptID", JNull, CreationId)>>),
                        E("eventActor",
                          <<E("actorInRole",
                              << E("actor",
                                   << E("nameActorSet", cs),
                                      E("nationalityActor",
                                        Retag(cs, "term")) >>),
                                 E("roleActor", Retag(cs, "term")) >>
                              \o Retag(cs, "attributionQualifierActor"))>>)
                     >>)>>)>>) >>)>>)

LangDocs == {LangRecord(cs, more) : cs \in LangValueSeqs, more \in BOOLEAN}

LangAccessors == {"titles", "descriptions", "creator"}

InitLidoLang ==
  /\ doc \in LangDocs
  /\ rec = LIDORecord(doc)
  /\ ret = NoCall
  /\ arg = JNull
  /\ NoLinkedArt
  /\ NoHarvest
  /\ NoGetty

NextLidoLang == \E name \in LangAccessors : Call(name)

SpecLidoLang == InitLidoLang /\ [][NextLidoLang]_vars


(***************************************************************************)
(* Records of measurements whose value texts may not be numbers            *)
(***************************************************************************)

MaxValues == 2

\* A measurement type or none, a value text, and the float the text stands
\* for in hundredths, None when float() raises ValueError for it.
ValueEntry(type, text, number) == [type |-> type, text |-> text, number |-> number]
ValuePool ==
  << ValueEntry(JStr(HeightText), <<"1", "2">>, JNum(1200)),
     ValueEntry(JStr(Width), <<"3", ".", "5">>, JNum(350)),
     ValueEntry(JStr(Height), <<"0">>, JNum(0)),
     ValueEntry(JStr(Height), <<"1", ",", "5">>, JNull),
     ValueEntry(JStr(Width), <<"x">>, JNull),
     ValueEntry(JStr(Depth), <<".">>, JNull),
     ValueEntry(JNull, <<"7">>, JNum(700)) >>

\* The measurementsSet element of pool entry i.
ValueSet(i) ==
  E("measurementsSet",
    (IF ValuePool[i].type = JNull THEN <<>>
     ELSE <<T("measurementType", En, ValuePool[i].type.v)>>)
    \o << T("measurementUnit", En, Cm),
          T("measurementValue", JNull, ValuePool[i].text) >>)

\* One objectMeasurementsSet with the measurements of the pool positions q.
ValueSets(q) ==
  IF q = <<>> THEN <<>>
  ELSE <<E("objectMeasurementsSet",
           <<E("objectMeasurements", [k \in 1..Len(q) |-> ValueSet(q[k])])>>)>>

\* A record with the measurements q, the first split of them in one
\* objectMeasurementsSet and the others in a second one.
ValueRecord(q, split) ==
  E("lido",
    <<E("descriptiveMetadata",
        <<E("objectIdentificationWrap",
            <<MeasurementsWrap(
                ValueSets(SubSeq(q, 1, split))
                \o ValueSets(SubSeq(q, split + 1, Len(q))))>>)>>)>>)

ValueDocs ==
  UNION { {ValueRecord(q, split) : split \in 0..Len(q)} :
          q \in UNION {[1..n -> 1..Len(ValuePool)] : n \in 0..MaxValues} }

InitLidoValues ==
  /\ doc \in ValueDocs
  /\ rec = LIDORecord(doc)
  /\ ret = NoCall
  /\ arg = JNull
  /\ NoLinkedArt
  /\ NoHarvest
  /\ NoGetty

NextLidoValues == Call("all_dimensions")

SpecLidoValues == InitLidoValues /\ [][NextLidoValues]_vars


(***************************************************************************)
(* Records whose events differ in how their type names a creation: by the  *)
(* first or a later conceptID, by an English, Dutch or untagged term.      *)
(***************************************************************************)

MaxEvents == 2

Acquisition == <<"A", "c", "q", "u", "i", "s", "i", "t", "i", "o", "n">>
CreationTerm == <<"C", "r", "e", "a", "t", "i", "o", "n">>
LidoTerm(id) == <<"http://terminology.lido-schema.org/", id>>

\* The children of the eventType of each kind of event.
EventTypes ==
  << <<T("conceptID", JNull, LidoTerm("expression_creation"))>>,
     << T("conceptID", JNull, LidoTerm("lido00228")),
        T("term", En, <<"Re-">> \o CreationWord) >>,
     <<T("term", En, Acquisition)>>,
     <<T("term", Nl, CreationTerm)>>,
     <<T("term", JNull, CreationWord)>>,
     << T("conceptID", JNull, LidoTerm("lido00228")),
        T("conceptID", JNull, LidoTerm("expression_creation")) >>,
     <<T("term", Nl, <<"Vervaardiging">>), T("term", En, CreationTerm)>> >>

\* The year, the actor and the material of the event at position i.
YearAt(i) == <<"1", "6", "0", Digits[i + 1]>>
ActorAt(i) == <<"actor", Digits[i + 1]>>
MaterialAt(i) == <<"material", Digits[i + 1]>>

TermMaterialsTech(type, label) ==
  E("eventMaterialsTech",
    <<E("materialsTech",
        <<[E("termMaterialsTech", <<T("term", En, label)>>)
             EXCEPT !.type = JStr(type)]>>)>>)

EventBody(i) ==
  << E("eventActor",
       <<E("actorInRole",
           <<E("actor",
               <<E("nameActorSet",
                   <<T("appellationValue", En, ActorAt(i))>>)>>)>>)>>),
     E("eventDate",
       <<E("date",
           << T("earliestDate", JNull, YearAt(i)),
              T("latestDate", JNull, YearAt(i)) >>)>>),
     TermMaterialsTech(<<"material">>, MaterialAt(i)),
     TermMaterialsTech(<<"technique">>, MaterialAt(i)) >>

\* The eventSet at position i: of a kind of EventTypes, or with an event
\* without eventType, or without event.
EventSetAt(kind, i) ==
  IF kind <= Len(EventTypes)
  THEN E("eventSet",
         <<E("event", <<E("eventType", EventTypes[kind])>> \o EventBody(i))>>)
  ELSE IF kind = Len(EventTypes) + 1
       THEN E("eventSet", <<E("event", EventBody(i))>>)
  ELSE E("eventSet", <<>>)

EventRecord(kinds) ==
  E("lido",
    <<E("descriptiveMetadata",
        <<E("eventWrap",
            [i \in 1..Len(kinds) |-> EventSetAt(kinds[i], i)])>>)>>)

EventDocs ==
  UNION { {EventRecord(kinds) :
             kinds \in [1..n -> 1..(Len(EventTypes) + 2)]} :
          n \in 0..MaxEvents }

InitLidoEvents ==
  /\ doc \in EventDocs
  /\ rec = LIDORecord(doc)
  /\ ret = NoCall
  /\ arg = JNull
  /\ NoLinkedArt
  /\ NoHarvest
  /\ NoGetty

NextLidoEvents == \E name \in EventAccessors : Call(name)

SpecLidoEvents == InitLidoEvents /\ [][NextLidoEvents]_vars


(***************************************************************************)
(* _parse_year on None and on every short string of digits, letters and    *)
(* spaces.                                                                 *)
(***************************************************************************)

MaxYearLen == 5

YearChars == {"0", "1", "9", "a"}
YearStrings ==
  {JNull} \cup {JStr(s) : s \in UNION {[1..n -> YearChars] : n \in 0..MaxYearLen}}

\* _parse_year(arg)
ParseYear ==
  /\ ret = NoCall
  /\ ret' = [name |-> "_parse_year", cached |-> FALSE,
             out |-> Ok(_parse_year(arg))]
  /\ UNCHANGED <<doc, rec, arg, raw, obj, again, d, harvest_vars, getty_vars>>

InitYear ==
  /\ arg \in YearStrings
  /\ doc = JNull
  /\ rec = JNull
  /\ ret = NoCall
  /\ NoLinkedArt
  /\ NoHarvest
  /\ NoGetty

NextYear == ParseYear

SpecYear == InitYear /\ [][NextYear]_vars


(***************************************************************************)
(* Records whose creation event holds materials-tech entries of every      *)
(* kind: with a type attribute or none, with labels in English, in Dutch,  *)
(* in no language, blank or missing.                                       *)
(***************************************************************************)

MaxTerms == 2

\* A termMaterialsTech element with a type attribute (None for none).
TermEl(type, kids) == [E("termMaterialsTech", kids) EXCEPT !.type = type]

TermPool ==
  << TermEl(JStr(<<"material">>), <<T("term", En, <<"oil">>)>>),
     TermEl(JStr(<<"technique">>), <<T("term", Nl, <<"etsen">>)>>),
     TermEl(JStr(<<"printing ", "technique">>),
            <<T("term", Nl, <<"drukken">>), T("term", En, <<"printing">>)>>),
     TermEl(JNull, <<T("term", En, <<" ", "canvas", " ">>)>>),
     TermEl(JStr(<<"Technique">>), <<T("term", En, <<"paper">>)>>),
     TermEl(JStr(<<"material">>), <<>>),
     TermEl(JStr(<<"technique">>), <<T("term", En, <<" ">>)>>),
     TermEl(JStr(<<"material">>), <<T("term", JNull, <<"huile">>)>>) >>

\* The eventMaterialsTech of each kind; the last two lack a level.
MaterialsTechOf(kind) ==
  IF kind <= Len(TermPool)
  THEN E("eventMaterialsTech", <<E("materialsTech", <<TermPool[kind]>>)>>)
  ELSE IF kind = Len(TermPool) + 1
       THEN E("eventMaterialsTech", <<E("materialsTech", <<>>)>>)
  ELSE E("eventMaterialsTech", <<>>)

MaterialsRecord(kinds) ==
  E("lido",
    <<E("descriptiveMetadata",
        <<E("eventWrap",
            <<E("eventSet",
                <<E("event",
                    <<E("eventType", <<T("conceptID", JNull, CreationId)>>)>>
                    \o [i \in 1..Len(kinds) |-> MaterialsTechOf(kinds[i])])
                >>)>>)>>)>>)

MaterialsDocs ==
  UNION { {MaterialsRecord(kinds) :
             kinds \in [1..n -> 1..(Len(TermPool) + 2)]} :
          n \in 0..MaxTerms }

MaterialsAccessors == {"materials", "techniques"}

InitLidoMaterials ==
  /\ doc \in MaterialsDocs
  /\ rec = LIDORecord(doc)
  /\ ret = NoCall
  /\ arg = JNull
  /\ NoLinkedArt
  /\ NoHarvest
  /\ NoGetty

NextLidoMaterials == \E name \in MaterialsAccessors : Call(name)

SpecLidoMaterials == InitLidoMaterials /\ [][NextLidoMaterials]_vars


(***************************************************************************)
(* Records whose object type and whose material hold the same concept-IDs: *)
(* AAT URIs with an id, padded or not, the AAT prefix without id, URIs of  *)
(* other vocabularies, blank ones.                                         *)
(***************************************************************************)

MaxCids == 2

AatPrefix == <<"http://", "vocab.getty.edu", "/", "aat", "/">>

CidTexts ==
  << AatPrefix \o <<"3", "0", "0">>,
     <<" ">> \o AatPrefix \o <<"7">> \o <<"\n">>,
     AatPrefix,
     AatPrefix \o <<"x">>,
     <<"http://", "example.org", "/", "aat", "/", "3">>,
     <<"http://", "iconclass.org", "/", "45">>,
     <<" ">> >>

CidSeqs ==
  UNION { [1..n -> {T("conceptID", JNull, CidTexts[k]) : k \in 1..Len(CidTexts)}] :
          n \in 0..MaxCids }

\* The record whose objectWorkType and whose one material hold the
\* concept-IDs cids after an English term.
AatRecord(cids) ==
  E("lido",
    <<E("descriptiveMetadata",
        << E("objectClassificationWrap",
             <<E("objectWorkTypeWrap",
                 <<E("objectWorkType",
                     <<T("term", En, <<"painting">>)>> \o cids)>>)>>),
           E("eventWrap",
             <<E("eventSet",
                 <<E("event",
                     << E("eventType", <<T("conceptID", JNull, CreationId)>>),
                        E("eventMaterialsTech",
                          <<E("materialsTech",
                              <<TermEl(JStr(<<"material">>),
                                       <<T("term", En, <<"oil">>)>> \o cids)
                              >>)>>) >>)>>)>>) >>)>>)

AatDocs == {AatRecord(cids) : cids \in CidSeqs}

AatAccessors == {"object_type", "materials"}

InitLidoAat ==
  /\ doc \in AatDocs
  /\ rec = LIDORecord(doc)
  /\ ret = NoCall
  /\ arg = JNull
  /\ NoLinkedArt
  /\ NoHarvest
  /\ NoGetty

NextLidoAat == \E name \in AatAccessors : Call(name)

SpecLidoAat == InitLidoAat /\ [][NextLidoAat]_vars


(***************************************************************************)
(* Records with several subjectSets whose subjects hold concepts, persons, *)
(* places and events in any document order, some without label and URI.    *)
(***************************************************************************)

MaxSubjectSets == 2

\* The label of the n-th element of the subject at position i.
SubjectLabel(kind, i, n) == <<kind, Digits[i + 1], Digits[n + 1]>>
Iconclass(i, n) == <<"http://", "iconclass.org", "/", Digits[i + 1], Digits[n + 1]>>

SubjectConcept(terms, ids) == E("subjectConcept", terms \o ids)
SubjectActor(names) ==
  E("subjectActor", <<E("actor", <<E("nameActorSet", names)>>)>>)
SubjectPlace(names, ids) ==
  E("subjectPlace", <<E("place", <<E("namePlaceSet", names)>> \o ids)>>)
SubjectEvent(names) ==
  E("subjectEvent", <<E("event", <<E("eventName", names)>>)>>)

Named(kind, i, n) == <<T("appellationValue", En, SubjectLabel(kind, i, n))>>

\* The children of the subject of each kind, for the subjectSet at position i.
SubjectKids(kind, i) ==
  CASE kind = 1 ->
         <<SubjectConcept(<<T("term", En, SubjectLabel("concept", i, 1))>>,
                          <<T("conceptID", JNull, Iconclass(i, 1))>>)>>
    [] kind = 2 ->
         << SubjectActor(Named("person", i, 1)),
            SubjectConcept(<<T("term", Nl, SubjectLabel("concept", i, 2))>>,
                           <<>>) >>
    [] kind = 3 ->
         << SubjectPlace(Named("place", i, 1),
                         <<T("placeID", JNull, Iconclass(i, 1))>>),
            SubjectEvent(Named("event", i, 2)),
            SubjectActor(Named("person", i, 3)) >>
    [] kind = 4 ->
         << SubjectConcept(<<>>, <<T("conceptID", JNull, Iconclass(i, 1))>>),
            SubjectConcept(<<>>, <<>>) >>
    [] kind = 5 ->
         << SubjectEvent(Named("event", i, 1)),
            SubjectPlace(<<>>, <<T("placeID", JNull, Iconclass(i, 2))>>),
            SubjectEvent(<<>>) >>
    [] kind = 6 -> <<SubjectActor(<<>>), E("subjectActor", <<>>)>>
    [] OTHER -> <<>>

NumSubjectKinds == 8

\* The subjectSet at position i; the last kind has no subject.
SubjectSetAt(kind, i) ==
  IF kind = NumSubjectKinds THEN E("subjectSet", <<>>)
  ELSE E("subjectSet", <<E("subject", SubjectKids(kind, i))>>)

SubjectRecord(kinds) ==
  E("lido",
    <<E("descriptiveMetadata",
        <<E("objectRelationWrap",
            <<E("subjectWrap",
                [i \in 1..Len(kinds) |-> SubjectSetAt(kinds[i], i)])>>)>>)>>)

SubjectDocs ==
  UNION { {SubjectRecord(kinds) : kinds \in [1..n -> 1..NumSubjectKinds]} :
          n \in 1..MaxSubjectSets }

InitLidoSubjects ==
  /\ doc \in SubjectDocs
  /\ rec = LIDORecord(doc)
  /\ ret = NoCall
  /\ arg = JNull
  /\ NoLinkedArt
  /\ NoHarvest
  /\ NoGetty

NextLidoSubjects == Call("subjects")

SpecLidoSubjects == InitLidoSubjects /\ [][NextLidoSubjects]_vars


(***************************************************************************)
(* Linked Art documents with height and width nodes of several dimension   *)
(* sets, in any order, and a dimensions description.                       *)
(***************************************************************************)

MaxDims == 2

SetLabel(name) == LabelSetPrefix \o <<" ">> \o name
FreeForm == <<"F", "o">>

Members(labels) ==
  "member_of" :> JList([i \in 1..Len(labels) |->
                          JDict("_label" :> JStr(labels[i]))])

DimNode(cls, value, extra) ==
  JDict("classified_as" :> Cls(cls) @@ "value" :> JNum(value) @@ extra)

\* Measurement nodes: of the fixed sets, of a free-form set, of no set, of
\* two sets, a second height of a set, and a node that is no measurement.
DimPoolLA ==
  { DimNode(AAT_HEIGHT, 246, Members(<<SetLabel(LabelImage)>>)
                             @@ Unit("Centimeters")),
    DimNode(AAT_WIDTH, 196, Members(<<SetLabel(LabelSheet)>>)),
    DimNode(AAT_HEIGHT, 300, Members(<<SetLabel(FreeForm)>>) @@ Unit("Inches")),
    DimNode(AAT_WIDTH, 100, NoKeys),
    DimNode(AAT_HEIGHT, 50,
            Members(<<SetLabel(LabelImage), SetLabel(LabelSheet)>>)),
    DimNode(AAT_HEIGHT, 10, Members(<<SetLabel(LabelImage)>>)),
    DimNode(AAT_DIMENSIONS_DESC, 1, NoKeys) }

\* A dimensions description with the technique label of a set, or none.
Describing(content, extra) ==
  JDict("content" :> JStr(content)
        @@ "classified_as" :> Cls(AAT_DIMENSIONS_DESC) @@ extra)

DescriptionPool ==
  { <<>>,
    <<Describing(<<"24 x 19 cm">>, Technique(SetLabel(LabelImage)))>>,
    <<Describing(<<"30 in">>, Technique(SetLabel(FreeForm)))>>,
    <<Describing(<<"10 cm">>, NoKeys)>>,
    <<Describing(<<" ">>, Technique(SetLabel(LabelSheet)))>> }

MeasuredDocs ==
  { WithId("dimension" :> JList(dims) @@ "referred_to_by" :> JList(refs)) :
      dims \in SeqsUpTo(DimPoolLA, MaxDims), refs \in DescriptionPool }

InitLinkedArtDims ==
  /\ raw \in MeasuredDocs
  /\ obj = NotCalled
  /\ again = NotCalled
  /\ d = NotCalled
  /\ NoLido
  /\ NoHarvest
  /\ NoGetty

SpecLinkedArtDims == InitLinkedArtDims /\ [][NextLinkedArt]_vars


(***************************************************************************)
(* Linked Art documents whose production lists contributors, with or       *)
(* without label, and any of the production-level producer statements.     *)
(***************************************************************************)

MaxPersons == 2

PersonPool ==
  { JDict("_label" :> JStr(<<"AK">>)
          @@ "id" :> JStr(<<"https:", "/", "/", "data.getty.edu", "/",
                            "person", "/", "k">>)
          @@ "referred_to_by" :>
               JList(<<ContentNode(<<"Photographer">>,
                                   Cls(LOCAL_PRODUCER_ROLE))>>)),
    JDict("_label" :> JStr(<<"B">>)),
    EmptyDict }

\* The production-level statements: each of name, description and
\* nationality is there or not.
ProducerName == ContentNode(<<"Andre Kertesz">>, Cls(LOCAL_PRODUCER_NAME))
ProducerDesc == ContentNode(<<" ", "Hungarian photographer">>,
                            Cls(LOCAL_PRODUCER_DESC))
ProducerNat == ContentNode(<<"American, 1894-1985">>,
                           Cls(LOCAL_PRODUCER_NAT_DATES))
ProducerStatements ==
  { (IF n THEN <<ProducerName>> ELSE <<>>)
      \o (IF t THEN <<ProducerNat>> ELSE <<>>)
      \o (IF s THEN <<ProducerDesc>> ELSE <<>>) :
    n \in BOOLEAN, t \in BOOLEAN, s \in BOOLEAN }

ArtistDocs ==
  { WithId("produced_by" :>
             JDict("carried_out_by" :> JList(persons)
                   @@ "referred_to_by" :> JList(refs))) :
      persons \in SeqsUpTo(PersonPool, MaxPersons),
      refs \in ProducerStatements }

InitLinkedArtArtists ==
  /\ raw \in ArtistDocs
  /\ obj = NotCalled
  /\ again = NotCalled
  /\ d = NotCalled
  /\ NoLido
  /\ NoHarvest
  /\ NoGetty

SpecLinkedArtArtists == InitLinkedArtArtists /\ [][NextLinkedArt]_vars


(***************************************************************************)
(* Linked Art documents with several description candidates: plain or     *)
(* rich text, with blank or padded content, among other statements.        *)
(***************************************************************************)

MaxDescs == 2

Markdown == JStr(<<"text/markdown">>)

DescEntries ==
  { JDict("content" :> JStr(c) @@ "classified_as" :> Cls(cl) @@ fmt) :
      c \in {<<" ">>, <<"a">>, <<" ", "b", " ">>},
      cl \in {AAT_DESCRIPTION, AAT_OBJECT_TYPE},
      fmt \in {NoKeys, "format" :> Markdown, "format" :> JStr(<<"text/html">>)} }

DescDocs ==
  { WithId("referred_to_by" :> JList(q)) : q \in SeqsUpTo(DescEntries, MaxDescs) }

InitLinkedArtDesc ==
  /\ raw \in DescDocs
  /\ obj = NotCalled
  /\ again = NotCalled
  /\ d = NotCalled
  /\ NoLido
  /\ NoHarvest
  /\ NoGetty

SpecLinkedArtDesc == InitLinkedArtDesc /\ [][NextLinkedArt]_vars


(***************************************************************************)
(* Linked Art documents whose subject_of entries have the id of a          *)
(* homepage, of a IIIF manifest, another id or none, classified as a       *)
(* manifest or not, and with up to two representations.                    *)
(***************************************************************************)

MaxSubjectOf == 2

OtherId == <<"https:", "/", "/", "x.org", "/", "doc">>
ImageId(n) == <<"https:", "/", "/", "media.getty.edu", "/", "iiif", "/", "image", "/", n>>

SubjectOfEntries ==
  { JDict(id @@ cl) :
      id \in { NoKeys, "id" :> JStr(HomepageId), "id" :> JStr(ManifestId),
               "id" :> JStr(OtherId) },
      cl \in {NoKeys, "classified_as" :> Cls(LOCAL_IIIF_MANIFEST)} }

Representations ==
  { NoKeys,
    "representation" :> EmptyList,
    "representation" :> JList(<<JDict("id" :> JStr(ImageId("1"))),
                                JDict("id" :> JStr(ImageId("2")))>>),
    "representation" :> JList(<<EmptyDict, JDict("id" :> JStr(ImageId("2")))>>) }

UrlDocs ==
  { WithId("subject_of" :> JList(q) @@ rp) :
      q \in SeqsUpTo(SubjectOfEntries, MaxSubjectOf), rp \in Representations }

InitLinkedArtUrls ==
  /\ raw \in UrlDocs
  /\ obj = NotCalled
  /\ again = NotCalled
  /\ d = NotCalled
  /\ NoLido
  /\ NoHarvest
  /\ NoGetty

SpecLinkedArtUrls == InitLinkedArtUrls /\ [][NextLinkedArt]_vars


(***************************************************************************)
(* Linked Art documents whose identified_by entries are classified under   *)
(* the identifier concepts, directly or one level down, or under none,     *)
(* with blank, padded or slug content.                                     *)
(***************************************************************************)

MaxIds == 2

IdContents == {<<" ">>, <<" ", "826", " ">>, SLUG_URN \o <<"108FPV">>}
IdClasses ==
  { EmptyList, Cls(LOCAL_DOR_ID), Cls(LOCAL_TMS_ID), Cls(LOCAL_SLUG),
    Cls(AAT_ACCESSION_NUMBER), NestedCls(AAT_ACCESSION_NUMBER, LOCAL_TMS_ID) }

IdEntriesLA == {ContentNode(c, cl) : c \in IdContents, cl \in IdClasses}

IdentifierDocs ==
  { WithId("identified_by" :> JList(q)) : q \in SeqsUpTo(IdEntriesLA, MaxIds) }

InitLinkedArtIds ==
  /\ raw \in IdentifierDocs
  /\ obj = NotCalled
  /\ again = NotCalled
  /\ d = NotCalled
  /\ NoLido
  /\ NoHarvest
  /\ NoGetty

SpecLinkedArtIds == InitLinkedArtIds /\ [][NextLinkedArt]_vars


(***************************************************************************)
(* The Getty database: getty_objects, getty_object_index and the three     *)
(* operations that write them                                              *)
(***************************************************************************)

NumUrls == 2
MaxClock == 1

\* The URLs of the objects: OBJECT_PREFIX followed by a uuid; the uuids are
\* listed in ascending order.
Uuids == <<"a", "b", "c", "d">>
ObjectUrl(n) == OBJECT_PREFIX \o <<Uuids[n]>>
ObjectUrls == {ObjectUrl(n) : n \in 1..NumUrls}
Rank(url) == CHOOSE n \in 1..Len(Uuids) : ObjectUrl(n) = url

\* SQL NULL, a table without the row of a key.
NULL == JNull
NoRow == JNull

\* The outcome of _fetch_json: the document read, HTTPError, URLError, or
\* another exception (a timeout while reading, a JSONDecodeError).
Document(id) == [t |-> "doc", id |-> id]
HTTPError(code) == [t |-> "HTTPError", code |-> code]
URLError == [t |-> "URLError"]
OtherException == [t |-> "Exception"]

\* The documents have the id of an object, none, or one that is no string.
DocumentIds == {JStr(u) : u \in ObjectUrls} \cup {JNull, JNum(7)}
FetchOutcomes ==
  {Document(id) : id \in DocumentIds}
    \cup {HTTPError(404), URLError, OtherException}

\* Lines 234-236: the id of the document, else the URL asked for; a string.
object_id_of(o, object_url_hint) ==
  IF Truthy(o.id) THEN o.id ELSE JStr(object_url_hint)

\* Lines 233-291: the row of the document replaces the row of its id.
_upsert_object(objects, o, object_url_hint, now) ==
  IF object_id_of(o, object_url_hint).t # "str"
  THEN Err("ValueError")
  ELSE Ok([object_id |-> object_id_of(o, object_url_hint).v,
           objects |->
             [objects EXCEPT ![object_id_of(o, object_url_hint).v] =
                [object_url |-> object_id_of(o, object_url_hint).v,
                 fetched_at |-> now]]])

\* The entry INSERT ... VALUES (?, 'pending', ?) makes.
PendingEntry(now) ==
  [status |-> "pending", indexed_at |-> now, fetched_at |-> NULL,
   error_message |-> NULL]

COALESCE(a, b) == IF a # NULL THEN a ELSE b

\* Lines 400-408: INSERT OR IGNORE of the URLs as pending.
insert_or_ignore(index, urls, now) ==
  [u \in ObjectUrls |->
     IF u \in urls /\ index[u] = NoRow THEN PendingEntry(now) ELSE index[u]]

\* Lines 410-419: every entry with a row in getty_objects becomes done.
mark_done_from_objects(index, objects) ==
  [u \in ObjectUrls |->
     IF index[u] # NoRow /\ objects[u] # NoRow
     THEN [index[u] EXCEPT !.status = "done",
                           !.fetched_at = COALESCE(@, objects[u].fetched_at),
                           !.error_message = NULL]
     ELSE index[u]]

\* UPDATE getty_object_index SET status = 'done' ... WHERE object_url = ?
update_done(index, object_url, now) ==
  IF index[object_url] = NoRow THEN index
  ELSE [index EXCEPT ![object_url] =
          [@ EXCEPT !.status = "done", !.fetched_at = now,
                    !.error_message = NULL]]

\* UPDATE getty_object_index SET status = 'error' ... WHERE object_url = ?
update_error(index, object_url, message) ==
  IF index[object_url] = NoRow THEN index
  ELSE [index EXCEPT ![object_url] =
          [@ EXCEPT !.status = "error", !.error_message = message]]

\* The message of the exception.
error_message_of(e) ==
  IF e.t = "HTTPError" THEN <<"HTTP ", e.code>> ELSE <<"URL error: ", "e">>

\* The URLs of S in ascending order.
InOrder(S) ==
  CHOOSE q \in [1..Cardinality(S) -> S] :
    \A i, j \in 1..Cardinality(S) : i < j => Rank(q[i]) < Rank(q[j])

Take(q, n) == SubSeq(q, 1, IF n < Len(q) THEN n ELSE Len(q))

\* Lines 428-438: the pending URLs in order, at most limit of them.
pending_urls(index, limit) ==
  Take(InOrder({u \in ObjectUrls :
                  index[u] # NoRow /\ index[u].status = "pending"}), limit)

NoOutcome == [t |-> "none"]
GettyIdle ==
  [pc |-> "idle", urls |-> <<>>, i |-> 0, success |-> 0, errors |-> 0,
   max_objects |-> NULL, last |-> NoOutcome, raised |-> FALSE]

\* The call ends with an exception that is not caught.
Raising == [GettyIdle EXCEPT !.raised = TRUE]

\* common.py, now_utc: the time of the clock.
now_utc == JNum(clock)

\* The clock of now_utc goes on.
Tick ==
  /\ clock < MaxClock
  /\ clock' = clock + 1
  /\ UNCHANGED <<getty_objects, getty_object_index, hydrate>>
  /\ UNCHANGED <<raw, obj, again, d, lido_vars, harvest_vars>>

\* Lines 377-425: build_object_index_from_sparql with the URLs the SPARQL
\* endpoint answers.
BuildIndex(urls) ==
  /\ hydrate.pc = "idle"
  /\ getty_object_index' =
       mark_done_from_objects(
         insert_or_ignore(getty_object_index, urls, now_utc), getty_objects)
  /\ UNCHANGED <<getty_objects, clock, hydrate>>
  /\ UNCHANGED <<raw, obj, again, d, lido_vars, harvest_vars>>

\* Lines 350-355: ingest_objects starts on the sorted URLs of the activity
\* stream (run, lines 493-498).
StartIngest(urls, max_objects) ==
  /\ hydrate.pc = "idle"
  /\ hydrate' = [GettyIdle EXCEPT !.pc = "ingest", !.urls = InOrder(urls),
                                  !.i = 1, !.max_objects = max_objects]
  /\ UNCHANGED <<getty_objects, getty_object_index, clock>>
  /\ UNCHANGED <<raw, obj, again, d, lido_vars, harvest_vars>>

Exhausted(r) ==
  \/ r.i > Len(r.urls)
  \/ r.pc = "ingest" /\ r.max_objects # NULL /\ r.success >= r.max_objects.v

\* Lines 357-373: one round of the loop of ingest_objects; success counts
\* the objects processed.
IngestOne(out) ==
  /\ hydrate.pc = "ingest"
  /\ ~Exhausted(hydrate)
  /\ IF out.t \in {"HTTPError", "URLError"}
     THEN /\ hydrate' = [hydrate EXCEPT !.i = @ + 1]
          /\ UNCHANGED getty_objects
     ELSE IF out.t = "Exception"
     THEN /\ hydrate' = Raising
          /\ UNCHANGED getty_objects
     ELSE IF ~_upsert_object(getty_objects, out, hydrate.urls[hydrate.i],
                             now_utc).ok
     THEN /\ hydrate' = Raising
          /\ UNCHANGED getty_objects
     ELSE /\ getty_objects' =
               _upsert_object(getty_objects, out, hydrate.urls[hydrate.i],
                              now_utc).v.objects
          /\ hydrate' = [hydrate EXCEPT !.i = @ + 1, !.success = @ + 1]
  /\ UNCHANGED <<getty_object_index, clock>>
  /\ UNCHANGED <<raw, obj, again, d, lido_vars, harvest_vars>>

\* Lines 428-441: hydrate_pending_objects selects the pending URLs.
StartHydrate(limit) ==
  /\ hydrate.pc = "idle"
  /\ hydrate' =
       [GettyIdle EXCEPT !.pc = "hydrate", !.i = 1,
                         !.urls = pending_urls(getty_object_index, limit)]
  /\ UNCHANGED <<getty_objects, getty_object_index, clock>>
  /\ UNCHANGED <<raw, obj, again, d, lido_vars, harvest_vars>>

\* Lines 445-455: the document is upserted, and the entry of its object_id
\* becomes done.
HydrateDocument(out, object_url, upserted) ==
  IF ~upserted.ok
  THEN /\ hydrate' = Raising
       /\ UNCHANGED <<getty_objects, getty_object_index>>
  ELSE /\ getty_objects' = upserted.v.objects
       /\ getty_object_index' =
            update_done(getty_object_index, upserted.v.object_id, now_utc)
       /\ hydrate' = [hydrate EXCEPT !.i = @ + 1, !.success = @ + 1,
                                     !.last = out]

\* Lines 443-477: one round of the loop of hydrate_pending_objects.
HydrateOne(out) ==
  /\ hydrate.pc = "hydrate"
  /\ ~Exhausted(hydrate)
  /\ IF out.t \in {"HTTPError", "URLError"}
     THEN /\ getty_object_index' =
               update_error(getty_object_index, hydrate.urls[hydrate.i],
                            error_message_of(out))
          /\ hydrate' = [hydrate EXCEPT !.i = @ + 1, !.errors = @ + 1,
                                        !.last = out]
          /\ UNCHANGED getty_objects
     ELSE IF out.t = "Exception"
     THEN /\ hydrate' = Raising
          /\ UNCHANGED <<getty_objects, getty_object_index>>
     ELSE HydrateDocument(out, hydrate.urls[hydrate.i],
            _upsert_object(getty_objects, out, hydrate.urls[hydrate.i], now_utc))
  /\ UNCHANGED clock
  /\ UNCHANGED <<raw, obj, again, d, lido_vars, harvest_vars>>

\* Lines 375 and 481-482: the loop is over, the call returns.
GettyReturns ==
  /\ hydrate.pc # "idle"
  /\ Exhausted(hydrate)
  /\ hydrate' = [GettyIdle EXCEPT !.success = hydrate.success,
                                  !.errors = hydrate.errors]
  /\ UNCHANGED <<getty_objects, getty_object_index, clock>>
  /\ UNCHANGED <<raw, obj, again, d, lido_vars, harvest_vars>>

\* A new database after _ensure_schema (lines 120-231).
InitGetty ==
  /\ getty_objects = [u \in ObjectUrls |-> NoRow]
  /\ getty_object_index = [u \in ObjectUrls |-> NoRow]
  /\ clock = 0
  /\ hydrate = GettyIdle
  /\ NoLido
  /\ NoLinkedArt
  /\ NoHarvest

NextGetty ==
  \/ Tick
  \/ \E urls \in SUBSET ObjectUrls : BuildIndex(urls)
  \/ \E urls \in SUBSET ObjectUrls, max_objects \in {NULL, JNum(1)} :
       StartIngest(urls, max_objects)
  \/ \E out \in FetchOutcomes : IngestOne(out)
  \/ \E limit \in 0..NumUrls : StartHydrate(limit)
  \/ \E out \in FetchOutcomes : HydrateOne(out)
  \/ GettyReturns

SpecGetty == InitGetty /\ [][NextGetty]_vars


(***************************************************************************)
(* rijks/ingest.py: the OAI-PMH harvest                                    *)
(*                                                                         *)
(* A record element is [header, metadata]: header is None or holds the     *)
(* status attribute and the texts of oai:identifier, oai:datestamp and of  *)
(* each oai:setSpec (None for an element without text); metadata is None   *)
(* when the record has no edm:ProvidedCHO and else stands for the fields   *)
(* parsed from it.  A page is [number, records, token]: token is the text  *)
(* of its oai:resumptionToken, None without that element.  A table is a    *)
(* function from its primary key.                                          *)
(***************************************************************************)

Deleted == JStr(<<"deleted">>)

\* _text(el, path) of ingest.py for the text of the first child at path.
ingest_text(text) == IF text = JNull THEN JNull ELSE non_blank(Strip(text.v))

\* The stripped texts of the setSpec elements that have one.
RECURSIVE set_specs_of(_)
set_specs_of(texts) ==
  IF texts = <<>> THEN <<>>
  ELSE (IF texts[1] # JNull /\ Strip(texts[1].v) # <<>>
        THEN <<Strip(texts[1].v)>> ELSE <<>>)
       \o set_specs_of(Tail(texts))

\* _parse_record_header(record_el): (identifier, datestamp, set_specs)
_parse_record_header(record_el) ==
  IF record_el.header = JNull THEN <<JNull, JNull, <<>>>>
  ELSE IF record_el.header.status = Deleted THEN <<JNull, JNull, <<>>>>
  ELSE << ingest_text(record_el.header.identifier),
          ingest_text(record_el.header.datestamp),
          set_specs_of(record_el.header.setSpec) >>

\* _parse_record_metadata(record_el, identifier, datestamp)
_parse_record_metadata(record_el, identifier, datestamp) ==
  IF record_el.metadata = JNull THEN JNull
  ELSE [identifier |-> identifier, datestamp |-> datestamp,
        fields |-> record_el.metadata]

\* INSERT OR REPLACE INTO table (key, value)
Replace(table, key, value) ==
  [k \in DOMAIN table \cup {key} |-> IF k = key THEN value ELSE table[k]]

\* self._load_state(key)
_load_state(table, key) == IF key \in DOMAIN table THEN table[key] ELSE JNull

\* self._object_exists(identifier)
_object_exists(objects, identifier) == identifier \in DOMAIN objects

\* self._upsert_record(rec)
_upsert_record(objects, row) == Replace(objects, row.identifier.v, row)

\* self._upsert_object_sets(identifier, set_specs): INSERT OR IGNORE each.
_upsert_object_sets(object_sets, identifier, set_specs) ==
  object_sets \cup {<<identifier.v, set_specs[i]>> : i \in 1..Len(set_specs)}

\* self._state_key(set_spec)
_state_key(set_spec) ==
  IF Truthy(set_spec) THEN <<"resumption_token:">> \o set_spec.v
  ELSE <<"resumption_token">>

\* Lines 390-395: the request for a token, or the first request of a set.
url_of(resumption_token, set_spec) ==
  IF Truthy(resumption_token)
  THEN [resumptionToken |-> resumption_token, set |-> JNull]
  ELSE [resumptionToken |-> JNull, set |-> set_spec]

\* objects_after without the check that the object exists.
objects_after_overwrite(objects, record_el, hdr) ==
  IF ~Truthy(hdr[1]) THEN objects
  ELSE IF _parse_record_metadata(record_el, hdr[1], hdr[2]) = JNull
       THEN objects
  ELSE _upsert_record(objects,
                      _parse_record_metadata(record_el, hdr[1], hdr[2]))

\* Lines 424-438: rijks_objects after one record with the parsed header hdr.
objects_after(objects, record_el, hdr) ==
  IF ~Truthy(hdr[1]) THEN objects
  ELSE IF _object_exists(objects, hdr[1].v) THEN objects
  ELSE IF _parse_record_metadata(record_el, hdr[1], hdr[2]) = JNull
       THEN objects
  ELSE _upsert_record(objects,
                      _parse_record_metadata(record_el, hdr[1], hdr[2]))

\* Lines 424-428: rijks_object_sets after one record.
object_sets_after(object_sets, hdr) ==
  IF ~Truthy(hdr[1]) THEN object_sets
  ELSE _upsert_object_sets(object_sets, hdr[1], hdr[3])

\* Lines 431-433 and 439: what the record adds to page_skipped, to page_new.
skipped_by(objects, hdr) ==
  IF Truthy(hdr[1]) /\ _object_exists(objects, hdr[1].v) THEN 1 ELSE 0
new_by(objects, record_el, hdr) ==
  IF /\ Truthy(hdr[1])
     /\ ~_object_exists(objects, hdr[1].v)
     /\ _parse_record_metadata(record_el, hdr[1], hdr[2]) # JNull
  THEN 1 ELSE 0

\* Lines 446-455: the resumption token a page leaves, None for the last page.
token_after(token_el) ==
  IF token_el # JNull /\ token_el.v # <<>> THEN JStr(Strip(token_el.v))
  ELSE JNull

\* Lines 449 and 454: the value saved for a page that leaves the token.
saved_for(resumption_token) ==
  IF resumption_token # JNull THEN resumption_token ELSE EmptyStr

\* Lines 451 and 455: the next request.
next_url(resumption_token) ==
  IF resumption_token # JNull
  THEN [resumptionToken |-> resumption_token, set |-> JNull]
  ELSE JNull

\* state_when_done that clears the saved token however the loop ended.
state_cleared_always(table, state_key, resumption_token) ==
  Replace(table, state_key, EmptyStr)

\* Lines 469-471: the table of saved state when the loop has ended.
state_when_done(table, state_key, resumption_token) ==
  IF resumption_token = JNull THEN Replace(table, state_key, EmptyStr)
  ELSE table

(***************************************************************************)
(* The endpoint: for each set a list of pages; the page served for a       *)
(* request is the first page of the set's list or the page that follows    *)
(* the one that gave the token.                                            *)
(***************************************************************************)

Served(lists, url) ==
  IF url.resumptionToken = JNull THEN {lists[url.set][1]}
  ELSE UNION { { lists[s][k] :
                   k \in { j \in 2..Len(lists[s]) :
                             /\ lists[s][j - 1].token # JNull
                             /\ Strip(lists[s][j - 1].token.v)
                                  = url.resumptionToken.v } } :
               s \in DOMAIN lists }

(***************************************************************************)
(* harvest(cfg) as a state machine.  run.pc is "idle" between runs, "loop" *)
(* at the head of the while loop, "records" inside a page and "after"      *)
(* behind the loop.  A run can be killed at any point, and a request can   *)
(* raise; the next run then starts from the tables as they are.            *)
(* seen.processed[s] are the numbers of the pages of set s processed since *)
(* a run last began that set from its first page, seen.last[s] the token   *)
(* the last of them left, and seen.fresh_restart tells that some run       *)
(* began a set from its first page although a token was saved for it.      *)
(***************************************************************************)

MaxRuns == 3

\* The variables a harvest leaves alone.
not_harvest == <<raw, obj, again, d, lido_vars, getty_vars>>

Idle == [pc |-> "idle"]

\* No page of the set has been processed.
NoPage == [t |-> "none"]

\* Lines 380-400: the locals of a run that found the given token.
started(cfg, resumption_token) ==
  [pc |-> "loop", cfg |-> cfg, state_key |-> _state_key(cfg.set_spec),
   resumption_token |-> resumption_token,
   url |-> url_of(resumption_token, cfg.set_spec),
   pages |-> 0, total_new |-> 0, total_skipped |-> 0,
   list_records |-> JNull, i |-> 0, page_new |-> 0, page_skipped |-> 0]

\* What is seen when a run of set s starts and finds the token saved.
seen_at_start(s, resume, saved) ==
  [seen EXCEPT !.runs = @ + 1,
               !.fresh_restart = @ \/ (~resume /\ Truthy(saved)),
               !.processed[s] = IF resume /\ Truthy(saved) THEN @ ELSE {}]

\* RijksIngester(conn).harvest(cfg), up to the while loop.
Start(cfg) ==
  /\ run.pc = "idle"
  /\ seen.runs < MaxRuns
  /\ run' = started(cfg,
                    IF cfg.resume
                    THEN _load_state(rijks_harvest_state,
                                     _state_key(cfg.set_spec))
                    ELSE JNull)
  /\ seen' = seen_at_start(cfg.set_spec, cfg.resume,
                           _load_state(rijks_harvest_state,
                                       _state_key(cfg.set_spec)))
  /\ UNCHANGED <<not_harvest, feed, rijks_harvest_state, rijks_objects, rijks_object_sets>>

\* Line 403: max_pages is reached.
AtMaxPages ==
  run.cfg.max_pages # JNull /\ run.pages >= run.cfg.max_pages.v

\* while url: the loop ends when there is no next request.
LoopEnds ==
  /\ run.pc = "loop"
  /\ run.url = JNull
  /\ run' = [run EXCEPT !.pc = "after"]
  /\ UNCHANGED <<not_harvest, feed, rijks_harvest_state, rijks_objects, rijks_object_sets,
                 seen>>

\* Lines 403-405: break at max_pages.
MaxPagesReached ==
  /\ run.pc = "loop"
  /\ run.url # JNull
  /\ AtMaxPages
  /\ run' = [run EXCEPT !.pc = "after"]
  /\ UNCHANGED <<not_harvest, feed, rijks_harvest_state, rijks_objects, rijks_object_sets,
                 seen>>

\* Lines 407-413: the request fails, or the response is an oai:error.
FetchRaises ==
  /\ run.pc = "loop"
  /\ run.url # JNull
  /\ ~AtMaxPages
  /\ run' = Idle
  /\ UNCHANGED <<not_harvest, feed, rijks_harvest_state, rijks_objects, rijks_object_sets,
                 seen>>

\* Lines 415-418: a response without ListRecords.
NoListRecords ==
  /\ run.pc = "loop"
  /\ run.url # JNull
  /\ ~AtMaxPages
  /\ run' = [run EXCEPT !.pc = "after"]
  /\ UNCHANGED <<not_harvest, feed, rijks_harvest_state, rijks_objects, rijks_object_sets,
                 seen>>

\* Lines 407-421: the page asked for arrives.
FetchPage ==
  /\ run.pc = "loop"
  /\ run.url # JNull
  /\ ~AtMaxPages
  /\ \E page \in Served(feed, run.url) :
       run' = [run EXCEPT !.pc = "records", !.list_records = page, !.i = 1,
                          !.page_new = 0, !.page_skipped = 0]
  /\ UNCHANGED <<not_harvest, feed, rijks_harvest_state, rijks_objects, rijks_object_sets,
                 seen>>

\* Lines 422-439: one pass of the loop over the records of the page.
record_pass(record_el, hdr) ==
  /\ rijks_object_sets' = object_sets_after(rijks_object_sets, hdr)
  /\ rijks_objects' = objects_after(rijks_objects, record_el, hdr)
  /\ run' = [run EXCEPT
               !.i = @ + 1,
               !.page_skipped = @ + skipped_by(rijks_objects, hdr),
               !.page_new = @ + new_by(rijks_objects, record_el, hdr)]

HarvestRecord ==
  /\ run.pc = "records"
  /\ run.i <= Len(run.list_records.records)
  /\ record_pass(run.list_records.records[run.i],
                 _parse_record_header(run.list_records.records[run.i]))
  /\ UNCHANGED <<not_harvest, feed, rijks_harvest_state, seen>>

\* Lines 441-455: the page is done and leaves the given token.
page_done(resumption_token) ==
  /\ rijks_harvest_state' =
       Replace(rijks_harvest_state, run.state_key, saved_for(resumption_token))
  /\ run' = [run EXCEPT !.pc = "loop",
                        !.total_new = @ + run.page_new,
                        !.total_skipped = @ + run.page_skipped,
                        !.pages = @ + 1,
                        !.resumption_token = resumption_token,
                        !.url = next_url(resumption_token),
                        !.list_records = JNull]
  /\ seen' = [seen EXCEPT
                !.processed[run.cfg.set_spec] = @ \cup {run.list_records.number},
                !.last[run.cfg.set_spec] = run.list_records.token]

PageEnd ==
  /\ run.pc = "records"
  /\ run.i > Len(run.list_records.records)
  /\ page_done(token_after(run.list_records.token))
  /\ UNCHANGED <<not_harvest, feed, rijks_objects, rijks_object_sets>>

\* Lines 469-480: behind the loop.
AfterLoop ==
  /\ run.pc = "after"
  /\ rijks_harvest_state' =
       state_when_done(rijks_harvest_state, run.state_key,
                       run.resumption_token)
  /\ run' = Idle
  /\ UNCHANGED <<not_harvest, feed, rijks_objects, rijks_object_sets, seen>>

\* The process is killed.
Interrupt ==
  /\ run.pc # "idle"
  /\ run' = Idle
  /\ UNCHANGED <<not_harvest, feed, rijks_harvest_state, rijks_objects, rijks_object_sets,
                 seen>>

(***************************************************************************)
(* The lists harvested: pages of new records, each page but the last with  *)
(* the token of the next one.                                              *)
(***************************************************************************)

MaxPages == 3

SetSpecs == {JNull, JStr(<<"260214">>)}

RecordEl(identifier, set_specs, metadata) ==
  [header |-> [status |-> JNull, identifier |-> identifier,
               datestamp |-> JStr(<<"2024-01-01">>), setSpec |-> set_specs],
   metadata |-> metadata]

\* The text of the token that asks for page k of set s.
TokenText(s, k) ==
  <<"t">> \o (IF s = JNull THEN <<>> ELSE s.v) \o <<Digits[k + 1], "\n">>

\* Page k of the n pages of set s: two records nothing else holds.
PlainPage(s, k, n) ==
  [number |-> k,
   records |-> [j \in 1..2 |->
                  RecordEl(JStr(TokenText(s, k) \o <<Digits[j + 1]>>),
                           IF s = JNull THEN <<>> ELSE <<s>>, JStr(<<"cho">>))],
   token |-> IF k < n THEN JStr(TokenText(s, k + 1))
             ELSE IF n = 1 THEN JNull ELSE EmptyStr]

PlainFeeds ==
  { [s \in SetSpecs |-> [k \in 1..n[s] |-> PlainPage(s, k, n[s])]] :
      n \in [SetSpecs -> 1..MaxPages] }

\* cfg: the set, max_pages and resume.
Configs(sets) ==
  [set_spec : sets,
   max_pages : {JNull} \cup {JNum(n) : n \in 0..MaxPages},
   resume : BOOLEAN]

NoneSeen(sets) ==
  [runs |-> 0, fresh_restart |-> FALSE,
   processed |-> [s \in sets |-> {}], last |-> [s \in sets |-> NoPage]]

InitHarvest ==
  /\ feed \in PlainFeeds
  /\ rijks_harvest_state = <<>>
  /\ rijks_objects = <<>>
  /\ rijks_object_sets = {}
  /\ run = Idle
  /\ seen = NoneSeen(DOMAIN feed)
  /\ NoLido
  /\ NoLinkedArt
  /\ NoGetty

NextHarvest ==
  \/ \E cfg \in Configs(DOMAIN feed) : Start(cfg)
  \/ LoopEnds
  \/ MaxPagesReached
  \/ FetchRaises
  \/ NoListRecords
  \/ FetchPage
  \/ HarvestRecord
  \/ PageEnd
  \/ AfterLoop
  \/ Interrupt

SpecHarvest == InitHarvest /\ [][NextHarvest]_vars

(***************************************************************************)
(* One page of records of every kind: the same identifier twice, with      *)
(* other sets and fields; no CHO; no header; deleted; no identifier.       *)
(***************************************************************************)

MaxRecords == 2

Obj1 == <<"obj1">>
SetA == JStr(<<"s1">>)
SetB == JStr(<<" ", "s2", "\n">>)

RecordPool ==
  << RecordEl(JStr(<<" ">> \o Obj1), <<SetA>>, JStr(<<"first">>)),
     RecordEl(JStr(Obj1), <<SetB, JNull, JStr(<<" ">>)>>, JStr(<<"second">>)),
     RecordEl(JStr(<<"obj2">>), <<SetA>>, JNull),
     [header |-> JNull, metadata |-> JStr(<<"first">>)],
     [RecordEl(JStr(Obj1), <<SetB>>, JStr(<<"second">>))
        EXCEPT !.header.status = Deleted],
     RecordEl(JNull, <<SetA>>, JStr(<<"first">>)),
     RecordEl(JStr(<<" ">>), <<SetB>>, JStr(<<"second">>)) >>

RecordFeeds ==
  { [s \in {JNull} |->
       <<[number |-> 1, records |-> [j \in 1..n |-> RecordPool[q[j]]],
          token |-> JNull]>>] :
      n \in 1..MaxRecords, q \in [1..MaxRecords -> 1..Len(RecordPool)] }

InitHarvestRecords ==
  /\ feed \in RecordFeeds
  /\ rijks_harvest_state = <<>>
  /\ rijks_objects = <<>>
  /\ rijks_object_sets = {}
  /\ run = Idle
  /\ seen = NoneSeen(DOMAIN feed)
  /\ NoLido
  /\ NoLinkedArt
  /\ NoGetty

SpecHarvestRecords == InitHarvestRecords /\ [][NextHarvest]_vars

(***************************************************************************)
(* Properties of the Linked Art converter                                  *)
(***************************************************************************)

\* The document's id as a string, <<>> when it has none.
RawId == IF IsStr(Get(raw, "id", EmptyStr)) THEN Get(raw, "id", EmptyStr).v ELSE <<>>

\* t is the last '/'-separated segment of s, trailing slashes ignored.
IsLastSegment(s, t) ==
  \E k \in 0..Len(s) :
    /\ \A i \in (k + 1)..Len(s) : s[i] = "/"
    /\ k = 0 \/ s[k] # "/"
    /\ \E j \in 0..k :
         /\ t = SubSeq(s, j + 1, k)
         /\ \A i \in (j + 1)..k : s[i] # "/"
         /\ j = 0 \/ s[j] = "/"

\* item is classified under uri: one of its classified_as entries has that
\* id, or has a classified_as entry of its own with that id.
ClassifiedUnder(item, uri) ==
  /\ IsDict(item)
  /\ "classified_as" \in DOMAIN item.v
  /\ IsList(item.v["classified_as"])
  /\ \E i \in 1..Len(item.v["classified_as"].v) :
       LET cls == item.v["classified_as"].v[i] IN
       /\ IsDict(cls)
       /\ \/ JEq(Get(cls, "id", JNull), JStr(uri))
          \/ /\ "classified_as" \in DOMAIN cls.v
             /\ IsList(cls.v["classified_as"])
             /\ \E j \in 1..Len(cls.v["classified_as"].v) :
                  /\ IsDict(cls.v["classified_as"].v[j])
                  /\ JEq(Get(cls.v["classified_as"].v[j], "id", JNull), JStr(uri))

\* The elements of the list under key k of the document, <<>> without one.
RawList(k) ==
  IF k \in DOMAIN raw.v /\ IsList(raw.v[k]) THEN raw.v[k].v ELSE <<>>

\* C1: two conversions of the same document return the same outcome, and
\* records that serialize alike, whatever the string-hash seeds of the two
\* calls.
C1_Deterministic ==
  (obj # NotCalled /\ again # NotCalled) =>
     /\ again = obj
     /\ Returned(obj) =>
          GettyObject_to_dict(again.v) = GettyObject_to_dict(obj.v)

C1_Witness ==
  /\ Returned(obj)
  /\ Returned(again)
  /\ Len(obj.v.dimensions) >= 3

\* C2: an id with the object prefix becomes the text after the prefix; any
\* other non-empty id becomes its last '/'-separated segment, trailing
\* slashes ignored.
C2_IdFromPrefixOrLastSegment ==
  (Returned(obj) /\ RawId # <<>>) =>
     /\ IsStr(obj.v.id)
     /\ StartsWith(RawId, OBJECT_PREFIX) =>
          OBJECT_PREFIX \o obj.v.id.v = RawId
     /\ ~StartsWith(RawId, OBJECT_PREFIX) => IsLastSegment(RawId, obj.v.id.v)

C2_Witness ==
  /\ Returned(obj)
  /\ ~StartsWith(RawId, OBJECT_PREFIX)
  /\ Len(RawId) > 2
  /\ RawId[Len(RawId)] = "/"
  /\ IsStr(obj.v.id)
  /\ obj.v.id.v # <<>>

\* C3: a document whose id is absent or empty makes convert fail with
\* MissingIdentity, so every returned record has a non-null, non-empty id.
C3_MissingIdentityRaised ==
  /\ (obj # NotCalled /\ RawId = <<>>) =>
        (Raised(obj) /\ obj.err = "MissingIdentity")
  /\ Returned(obj) => (IsStr(obj.v.id) /\ obj.v.id.v # <<>>)

\* C4: a document with a usable id is converted without an exception,
\* whatever nested structure is missing, null or malformed.
UsableId ==
  /\ IsStr(Get(raw, "id", JNull))
  /\ IF StartsWith(RawId, OBJECT_PREFIX) THEN Len(RawId) > Len(OBJECT_PREFIX)
     ELSE \E i \in 1..Len(RawId) : RawId[i] # "/"

C4_NeverRaisesWithUsableId == (obj # NotCalled /\ UsableId) => Returned(obj)

\* The identified_by entries of type Name with non-blank content, and those
\* of them classified as preferred term or primary title.
NameEntries ==
  { i \in 1..Len(RawList("identified_by")) :
      LET e == RawList("identified_by")[i] IN
      /\ IsDict(e)
      /\ JEq(Get(e, "type", JNull), JStr(<<"Name">>))
      /\ IsStr(Get(e, "content", JNull))
      /\ \E n \in 1..Len(Get(e, "content", JNull).v) :
           ~IsSpace(Get(e, "content", JNull).v[n]) }
PreferredEntries ==
  { i \in NameEntries :
      \/ ClassifiedUnder(RawList("identified_by")[i], AAT_PREFERRED_TERM)
      \/ ClassifiedUnder(RawList("identified_by")[i], AAT_PRIMARY_TITLE) }
Least(S) == CHOOSE i \in S : \A j \in S : i <= j
TrimmedContent(i) == JStr(Strip(RawList("identified_by")[i].v["content"].v))

\* C5: the title is the content of the first preferred Name entry if there
\* is one, wherever it stands; else of the first Name entry; else _label.
C5_TitleChoice ==
  Returned(obj) =>
     obj.v.title =
       IF PreferredEntries # {} THEN TrimmedContent(Least(PreferredEntries))
       ELSE IF NameEntries # {} THEN TrimmedContent(Least(NameEntries))
       ELSE Get(raw, "_label", JNull)

C5_Witness ==
  /\ Returned(obj)
  /\ PreferredEntries # {}
  /\ Least(NameEntries) < Least(PreferredEntries)
  /\ obj.v.title = TrimmedContent(Least(PreferredEntries))
  /\ obj.v.title # TrimmedContent(Least(NameEntries))

\* C6: is_public_domain is the boolean true exactly when some subject_to
\* entry is classified under the CC0 URI, and the boolean false otherwise.
C6_PublicDomainFlag ==
  Returned(obj) =>
     obj.v.is_public_domain =
       JBool(\E i \in 1..Len(RawList("subject_to")) :
               ClassifiedUnder(RawList("subject_to")[i], AAT_CC0))

C6_Witness ==
  /\ Returned(obj)
  /\ Len(RawList("subject_to")) = 2
  /\ ClassifiedUnder(RawList("subject_to")[1], AAT_CC0)
  /\ ~ClassifiedUnder(RawList("subject_to")[2], AAT_CC0)
  /\ obj.v.is_public_domain = JBool(TRUE)

\* x is or contains a null, an empty string, an empty list or an empty map.
RECURSIVE HasEmpty(_)
HasEmpty(x) ==
  CASE x.t = "null" -> TRUE
    [] x.t = "str" -> x.v = <<>>
    [] x.t = "list" -> x.v = <<>> \/ \E i \in 1..Len(x.v) : HasEmpty(x.v[i])
    [] x.t = "dict" -> DOMAIN x.v = {} \/ \E k \in DOMAIN x.v : HasEmpty(x.v[k])
    [] x.t = "omap" -> x.v = <<>> \/ \E i \in 1..Len(x.v) : HasEmpty(x.v[i].v)
    [] OTHER -> FALSE

\* C7: to_dict() of a converted record holds no null, empty string, empty
\* list or empty map at any nesting level.
C7_NoEmptyValueSerialized == Returned(d) => ~HasEmpty(d.v)


(***************************************************************************)
(* Properties of LIDORecord                                                *)
(***************************************************************************)

\* The measurements of the document, as all_dimensions lists them.
Measured == all_dimensions(LIDORecord(doc)).v

\* The last call was primary_dimensions_cm; it returned ret.out.v, the
\* height, the width and the depth.
PrimaryCalled == ret.name = "primary_dimensions_cm"

\* The measurement types that feed each axis.
AxisTypes == << {Height}, {Width, Breedte}, {Depth, Diepte} >>
OfAxis(m, k) == m.type.v \in AxisTypes[k]

UnitOf(m) == Strip(Lower(m.unit.v))
Convertible(m) == UnitOf(m) \in {Cm, Mm}

\* v is measurement m in centimetres: its value for cm, a tenth for mm.
Reports(m, v) ==
  \/ UnitOf(m) = Cm /\ v = m.value
  \/ UnitOf(m) = Mm /\ v * 10 = m.value

\* The axes reported for the measurements ms are conversions to centimetres.
ConvertedToCm(ms, axes) ==
  \A k \in 1..3 :
    /\ axes[k] # JNull =>
         \E i \in 1..Len(ms) : OfAxis(ms[i], k) /\ Reports(ms[i], axes[k].v)
    /\ (\A i \in 1..Len(ms) : OfAxis(ms[i], k) => ~Convertible(ms[i]))
         => axes[k] = JNull
    /\ ( /\ Len(ms) = 1
         /\ ~Truthy(ms[1].extent)
         /\ OfAxis(ms[1], k)
         /\ Convertible(ms[1]) )
         => axes[k] # JNull

\* C8: every axis primary_dimensions_cm reports is a measurement of that axis
\* in centimetres: the value itself when its unit is cm, the value divided by
\* 10 when its unit is mm; a measurement with another unit or none is never
\* reported, so an axis measured only in such units is null; and a document
\* whose single measurement has no extent and a unit of cm or mm reports it.
C8_UnitsConvertedToCm == PrimaryCalled => ConvertedToCm(Measured, ret.out.v)

\* ms has a measurement of axis k with the given unit and value.
HasMeasurement(ms, k, unit, value) ==
  \E i \in 1..Len(ms) :
    OfAxis(ms[i], k) /\ UnitOf(ms[i]) = unit /\ ms[i].value = value

\* 246 mm is reported as 24.6 beside a width measured only in inches.
C8_Witness ==
  /\ PrimaryCalled
  /\ ret.out.v[1] = JNum(2460)
  /\ ret.out.v[2] = JNull
  /\ HasMeasurement(Measured, 1, Mm, 24600)
  /\ \E i \in 1..Len(Measured) :
       OfAxis(Measured[i], 2) /\ UnitOf(Measured[i]) = Inch

FrameLike(m) == extent_of(m) \in {Frame, Lijst, SightSize, Dagmaat, Rand}
SupportLike(m) == extent_of(m) \in {Support, Drager}
Unlabelled(m) == extent_of(m) = <<>>

\* The positions of the measurements in each bucket, and the bucket chosen.
SupportBucket(ms) ==
  {i \in 1..Len(ms) : SupportLike(ms[i]) /\ Convertible(ms[i])}
NoExtentBucket(ms) ==
  {i \in 1..Len(ms) : Unlabelled(ms[i]) /\ Convertible(ms[i])}
Preferred(support, no_extent) == IF support # {} THEN support ELSE no_extent
ChosenBucket(ms) == Preferred(SupportBucket(ms), NoExtentBucket(ms))

\* The axes reported for the measurements ms come from the bucket chosen.
FromBucket(ms, chosen, axes) ==
  \A k \in 1..3 :
    /\ axes[k] # JNull =>
         /\ \E i \in chosen : OfAxis(ms[i], k) /\ Reports(ms[i], axes[k].v)
         /\ \A i \in 1..Len(ms) :
              FrameLike(ms[i]) => ~Reports(ms[i], axes[k].v)
    /\ (\E i \in chosen : OfAxis(ms[i], k)) => axes[k] # JNull

\* C9: primary_dimensions_cm never reports a frame-like measurement; every
\* axis it reports is a measurement of the support-like bucket when that
\* bucket is not empty and of the bucket without extent otherwise, and an
\* axis the chosen bucket measures is reported.
C9_SupportBucketFirst ==
  PrimaryCalled => FromBucket(Measured, ChosenBucket(Measured), ret.out.v)

\* A supported height is reported while the only width, which has no
\* extent, is not.
C9_Witness ==
  /\ PrimaryCalled
  /\ SupportBucket(Measured) # {}
  /\ \E i \in NoExtentBucket(Measured) : OfAxis(Measured[i], 2)
  /\ ret.out.v[1] # JNull
  /\ ret.out.v[2] = JNull

Dm == "descriptiveMetadata"
Am == "administrativeMetadata"
Oiw == "objectIdentificationWrap"
EventPath == <<Dm, "eventWrap", "eventSet", "event">>

\* The chains of elements each accessor navigates through, from the record.
AncestorPaths(name) ==
  CASE name = "inventory_number" ->
         {<<Dm, Oiw, "repositoryWrap", "repositorySet">>}
    [] name = "lido_rec_id" -> {}
    [] name = "oai_identifier" -> {<<Am, "recordWrap", "recordInfoSet">>}
    [] name = "titles" -> {<<Dm, Oiw, "titleWrap", "titleSet">>}
    [] name = "descriptions" ->
         {<<Dm, Oiw, "objectDescriptionWrap", "objectDescriptionSet">>}
    [] name = "object_type" ->
         {<<Dm, "objectClassificationWrap", "objectWorkTypeWrap",
            "objectWorkType">>}
    [] name = "creator" ->
         {EventPath \o <<"eventType">>,
          EventPath \o <<"eventActor", "actorInRole">>}
    [] name = "date_range" ->
         {EventPath \o <<"eventType">>, EventPath \o <<"eventDate", "date">>}
    [] name \in {"materials", "techniques"} ->
         {EventPath \o <<"eventType">>,
          EventPath \o <<"eventMaterialsTech", "materialsTech",
                         "termMaterialsTech">>}
    [] name \in {"all_dimensions", "primary_dimensions_cm"} ->
         {<<Dm, Oiw, "objectMeasurementsWrap", "objectMeasurementsSet",
            "objectMeasurements", "measurementsSet">>}
    [] name = "subjects" ->
         {<<Dm, "objectRelationWrap", "subjectWrap", "subjectSet", "subject">>}
    [] name = "inscriptions" -> {<<Dm, Oiw, "inscriptionsWrap", "inscriptions">>}
    [] name = "image_url" ->
         {<<Am, "resourceWrap", "resourceSet", "resourceRepresentation">>}
    [] name = "rights_url" ->
         {<<Am, "rightsWorkWrap", "rightsWorkSet", "rightsType">>}
    [] name = "credit_line" -> {<<Am, "recordWrap", "recordRights">>}
    [] name = "record_metadata_date" -> {<<Am, "recordWrap", "recordInfoSet">>}

\* Some element the accessor navigates through occurs nowhere in the record.
AncestorAbsent(name) == \E p \in AncestorPaths(name) : findall(doc, p) = <<>>

\* The null or empty value of each accessor.
EmptyResult(name) ==
  CASE name \in {"titles", "descriptions", "date_range"} -> <<JNull, JNull>>
    [] name \in {"object_type", "primary_dimensions_cm"} ->
         <<JNull, JNull, JNull>>
    [] name = "creator" -> NoCreator
    [] name \in {"materials", "techniques", "all_dimensions", "subjects",
                 "inscriptions"} -> <<>>
    [] OTHER -> JNull

\* C10: a call of any public accessor returns without raising; what it
\* returns is what it returns on a record just built from the document,
\* whatever was called before; and it is the accessor's null or empty value
\* when an element it navigates through is absent.
C10_AbsentAncestorsGiveEmpty ==
  ret # NoCall =>
    /\ ret.out.ok
    /\ ret.out = call_accessor(LIDORecord(doc), ret.name)
    /\ AncestorAbsent(ret.name) => ret.out.v = EmptyResult(ret.name)

\* titles() called after an accessor that searched for the creation event,
\* on a record without the element that holds the titles.
C10_Witness ==
  /\ ret.name = "titles"
  /\ AncestorAbsent("titles")
  /\ rec._creation_event_searched
  /\ ret.out = Ok(<<JNull, JNull>>)


\* The record lacks one of its two top-level sections.
MissingSection ==
  findall(doc, <<Dm>>) = <<>> \/ findall(doc, <<Am>>) = <<>>

\* C11: a record without its descriptive or its administrative metadata is
\* refused with the error UnparseableDocument: no accessor of such a record
\* returns a value.
C11_MissingSectionsRaise ==
  (MissingSection /\ ret # NoCall) =>
    (~ret.out.ok /\ ret.out.err = "UnparseableDocument")

\* The last call was one of the four accessors that read the creation event.
EventCalled == ret.name \in EventAccessors

\* C12: whatever was called before, creator(), date_range(), materials() and
\* techniques() return what the same call returns when it is the first call
\* on a record just built from the same element.
C12_MemoUnobservable ==
  EventCalled => ret.out = call_accessor(LIDORecord(doc), ret.name)

\* date_range() answered from the memoized creation event gives the years.
C12_Witness ==
  /\ ret.name = "date_range"
  /\ ret.cached
  /\ rec._creation_event # JNull
  /\ ret.out = Ok(<<JNum(1642), JNum(1642)>>)

(***************************************************************************)
(* Properties of _text                                                     *)
(***************************************************************************)

TextCalled == ret.name = "_text"

\* The candidates of the call, and those among them that are not blank.
Cands == findall(doc, <<Value>>)
NonBlank(c) == c.text # JNull /\ Strip(c.text.v) # <<>>
Tagged(c, lang) == lang # JNull /\ c.lang = lang

\* The trimmed text of the first of the candidates at the positions in s,
\* null when s is empty.
FirstOf(cs, s) ==
  IF s = {} THEN JNull
  ELSE JStr(Strip(cs[CHOOSE i \in s : \A j \in s : i <= j].text.v))

\* The text of the first non-blank candidate in lang and, without one, of
\* the first non-blank candidate.
PreferLang(cs, tagged, any) == FirstOf(cs, IF tagged # {} THEN tagged ELSE any)
FirstNonBlank(cs, lang) ==
  PreferLang(cs, {i \in 1..Len(cs) : NonBlank(cs[i]) /\ Tagged(cs[i], lang)},
             {i \in 1..Len(cs) : NonBlank(cs[i])})

\* C13: _text returns the trimmed text of the first non-blank candidate with
\* the requested language; without one, of the first non-blank candidate
\* whatever its language; null only when every candidate is blank.
C13_FirstNonBlankText == TextCalled => ret.out.v = FirstNonBlank(Cands, arg)

(***************************************************************************)
(* Properties of the values chosen by language                             *)
(***************************************************************************)

\* The values of the first titleSet and of the first objectDescriptionSet.
FirstSetValues(name) ==
  IF name = "titles"
  THEN findall(doc, <<Dm, Oiw, "titleWrap", "titleSet">>)[1].kids
  ELSE findall(doc, <<Dm, Oiw, "objectDescriptionWrap",
                      "objectDescriptionSet">>)[1].kids

\* The positions of the non-blank values of cs in lang.
InLang(cs, lang) ==
  {i \in 1..Len(cs) : NonBlank(cs[i]) /\ cs[i].lang = lang}

\* The pair is (first en-tagged value, first nl-tagged value) of cs; without
\* either, each slot is null or one of the values.
ExactPair(cs, en, nl, pair) ==
  IF en \cup nl # {} THEN pair = <<FirstOf(cs, en), FirstOf(cs, nl)>>
  ELSE \A k \in 1..2 :
         pair[k] \in {JNull} \cup {JStr(Strip(cs[i].text.v)) : i \in 1..Len(cs)}

\* C14: titles() and descriptions() read the first titleSet and the first
\* objectDescriptionSet only; the English slot is the first non-blank value
\* tagged en and the Dutch slot the first tagged nl, null without one; a
\* value of another language or of none is used only when no value is
\* tagged en or nl.
C14_ExactLanguageMatch ==
  ret.name \in {"titles", "descriptions"} =>
    ExactPair(FirstSetValues(ret.name), InLang(FirstSetValues(ret.name), En),
              InLang(FirstSetValues(ret.name), Nl), ret.out.v)

(***************************************************************************)
(* Properties of all_dimensions on value texts                             *)
(***************************************************************************)

\* The measurementsSet elements of the document, in document order.
MeasurementSets ==
  findall(doc, <<Dm, Oiw, "objectMeasurementsWrap", "objectMeasurementsSet",
                 "objectMeasurements", "measurementsSet">>)

\* The type of a measurementsSet element, None without one, and the number
\* its value text stands for, None when it is no number.
TypeOf(ms) ==
  IF findall(ms, <<"measurementType">>) = <<>> THEN JNull
  ELSE JStr(Lower(findall(ms, <<"measurementType">>)[1].text.v))
NumberOf(ms) ==
  ValuePool[CHOOSE i \in 1..Len(ValuePool) :
              ValuePool[i].text = findall(ms, <<"measurementValue">>)[1].text.v
           ].number

\* The (type, value) pairs of the measurements with a type and a number.
Parseable(sets) ==
  SelectSeq([i \in 1..Len(sets) |-> <<TypeOf(sets[i]), NumberOf(sets[i])>>],
            LAMBDA p : p[1] # JNull /\ p[2] # JNull)
TypedValues(ms) == [i \in 1..Len(ms) |-> <<ms[i].type, JNum(ms[i].value)>>]

\* C15: all_dimensions returns without raising, and what it returns are the
\* measurements that have a type and a value text that is a number, in
\* document order, each with that number: a measurement whose value text is
\* no number is left out alone, and no entry stands for it.
C15_UnparseableDroppedAlone ==
  ret.name = "all_dimensions" =>
    /\ ret.out.ok
    /\ TypedValues(ret.out.v) = Parseable(MeasurementSets)

\* "1,5" before "12" in one objectMeasurements: only the 12.0 is returned.
C15_Witness ==
  /\ ret.name = "all_dimensions"
  /\ Len(findall(doc, <<Dm, Oiw, "objectMeasurementsWrap",
                        "objectMeasurementsSet">>)) = 1
  /\ [i \in 1..Len(MeasurementSets) |-> NumberOf(MeasurementSets[i])]
       = <<JNull, JNum(1200)>>
  /\ TypedValues(ret.out.v) = <<<<JStr(Height), JNum(1200)>>>>

(***************************************************************************)
(* Properties of the harvest                                               *)
(***************************************************************************)

\* The token saved for set s, and the number of the page a run of s with
\* resume=True would ask for first.
SavedToken(s) == _load_state(rijks_harvest_state, _state_key(s))
PageAsked(s, saved) ==
  IF Truthy(saved)
  THEN {page.number : page \in Served(feed, url_of(saved, s))}
  ELSE {1}

\* The saved token is the one the last processed page of s left: empty or
\* not there when no page was processed or the last one left none.
SavedIsLast(saved, last) ==
  IF last = NoPage THEN ~Truthy(saved)
  ELSE IF last = JNull THEN saved = EmptyStr
  ELSE saved = JStr(Strip(last.v))

\* A restart asks for the first page not processed; with nothing saved,
\* no page was processed or the last page was.
NoPageSkipped(saved, asked, processed, pages) ==
  IF Truthy(saved)
  THEN \E k \in 1..pages : asked = {k} /\ processed = 1..(k - 1)
  ELSE processed = {} \/ processed = 1..pages

\* Once the last page is processed nothing but the empty token is saved.
ClearedAtEnd(saved, processed, pages) == pages \in processed => saved = EmptyStr

\* C16: as long as no run was told to start over while a token was saved,
\* at every point of every run, and so wherever a run stops, the token
\* saved for a set is the token its last processed page left; a restart
\* with resume=True therefore asks for the first page not yet processed and
\* skips none; and when the last page is processed the saved token is empty.
C16_RestartSkipsNoPage ==
  (feed # <<>> /\ ~seen.fresh_restart) =>
    \A s \in DOMAIN feed :
      /\ SavedIsLast(SavedToken(s), seen.last[s])
      /\ NoPageSkipped(SavedToken(s), PageAsked(s, SavedToken(s)),
                       seen.processed[s], Len(feed[s]))
      /\ ClearedAtEnd(SavedToken(s), seen.processed[s], Len(feed[s]))

\* A second run, begun after the first was stopped behind page 1, is inside
\* page 2, its first page.
C16_Witness ==
  /\ feed # <<>>
  /\ seen.runs = 2
  /\ ~seen.fresh_restart
  /\ run.pc = "records"
  /\ run.pages = 0
  /\ run.i = 2
  /\ run.list_records.number = 2
  /\ seen.processed[run.cfg.set_spec] = {1}

\* The record the loop is at, while inside a page.
AtRecord == run.pc = "records" /\ run.i <= Len(run.list_records.records)
ThisRecord == run.list_records.records[run.i]

\* The record has a header that is not deleted and holds an identifier.
Identified(r) ==
  /\ r.header # JNull
  /\ r.header.status # Deleted
  /\ r.header.identifier # JNull
  /\ Strip(r.header.identifier.v) # <<>>
IdentifierOf(r) == Strip(r.header.identifier.v)

\* The set memberships the header of r lists.
Memberships(r) ==
  { <<IdentifierOf(r), Strip(r.header.setSpec[i].v)>> :
      i \in { j \in 1..Len(r.header.setSpec) :
                /\ r.header.setSpec[j] # JNull
                /\ Strip(r.header.setSpec[j].v) # <<>> } }

\* No row of rijks_objects is removed or changed.
RowsKept ==
  \A id \in DOMAIN rijks_objects :
    id \in DOMAIN rijks_objects' /\ rijks_objects'[id] = rijks_objects[id]

\* What the step over record r does to the two tables.
RecordEffect(r) ==
  /\ (Identified(r) /\ IdentifierOf(r) \in DOMAIN rijks_objects) =>
       /\ rijks_objects' = rijks_objects
       /\ rijks_object_sets' = rijks_object_sets \cup Memberships(r)
  /\ Identified(r) => Memberships(r) \subseteq rijks_object_sets'
  /\ ~Identified(r) =>
       /\ rijks_objects' = rijks_objects
       /\ rijks_object_sets' = rijks_object_sets

\* C17: no step of a harvest changes or removes a row of rijks_objects; the
\* step over a record whose identifier is in rijks_objects leaves that
\* table as it is and adds the set memberships of the header to
\* rijks_object_sets, as the step over any record with an identifier does;
\* the step over a record without header, deleted or without identifier
\* leaves both tables as they are.
C17_ExistingRowsKept ==
  [][ /\ RowsKept
      /\ (AtRecord /\ run'.pc = "records" /\ run'.i = run.i + 1) =>
           RecordEffect(ThisRecord) ]_vars

\* The second record of the page had the identifier of the first, stored
\* with other fields: it was skipped and its set was added.
C17_Witness ==
  /\ run.pc = "records"
  /\ run.i = 3
  /\ run.page_skipped = 1
  /\ run.page_new = 1
  /\ run.list_records.records = <<RecordPool[1], RecordPool[2]>>
  /\ rijks_objects[Obj1].fields = JStr(<<"first">>)
  /\ rijks_object_sets = {<<Obj1, <<"s1">>>>, <<Obj1, <<"s2">>>>}

\* The eventSets of the document, in document order.
EventSetsOf(el) == findall(el, <<"descriptiveMetadata", "eventWrap", "eventSet">>)

ChildrenOf(el, tag) == SelectSeq(el.kids, LAMBDA k : k.tag = tag)
TextOf(el) == IF el.text = JNull THEN <<>> ELSE el.text.v

\* The event type has a concept-id containing 'expression_creation' or an
\* English term containing 'creation', whatever the case.
CreationType(event_type) ==
  \/ \E i \in 1..Len(ChildrenOf(event_type, "conceptID")) :
       Contains(TextOf(ChildrenOf(event_type, "conceptID")[i]), CreationId)
  \/ \E i \in 1..Len(ChildrenOf(event_type, "term")) :
       /\ ChildrenOf(event_type, "term")[i].lang = En
       /\ Contains(Lower(TextOf(ChildrenOf(event_type, "term")[i])),
                   CreationWord)

\* The event of eventSet i of sets has a creation type.
CreationAt(sets, i) ==
  /\ ChildrenOf(sets[i], "event") # <<>>
  /\ ChildrenOf(ChildrenOf(sets[i], "event")[1], "eventType") # <<>>
  /\ CreationType(ChildrenOf(ChildrenOf(sets[i], "event")[1], "eventType")[1])

\* The position of the first creation event, 0 when there is none.
FirstCreation(sets) ==
  IF \E i \in 1..Len(sets) : CreationAt(sets, i)
  THEN CHOOSE i \in 1..Len(sets) :
         CreationAt(sets, i) /\ \A j \in 1..(i - 1) : ~CreationAt(sets, j)
  ELSE 0

\* The result of the accessor comes from the event at position i.
FromEvent(name, out, i) ==
  IF i = 0 THEN out = EmptyResult(name)
  ELSE CASE name = "date_range" -> out = <<JNum(1600 + i), JNum(1600 + i)>>
         [] name = "creator" -> out.name = JStr(ActorAt(i))
         [] OTHER -> Len(out) = 1 /\ out[1].label_en = JStr(MaterialAt(i))

\* C18: creator(), date_range(), materials() and techniques() report the
\* first event, in document order, whose type has a concept-id containing
\* 'expression_creation' or an English term containing 'creation'; when no
\* event has such a type they return their empty results.
C18_FirstCreationEvent ==
  (ret.name \in EventAccessors /\ ret.out.ok) =>
    FromEvent(ret.name, ret.out.v, FirstCreation(EventSetsOf(doc)))

\* The values of the name of the creator; its nationality, role and
\* qualifier hold the same languages and texts.
CreatorValues ==
  findall(doc, EventPath \o <<"eventActor", "actorInRole", "actor",
                              "nameActorSet">>)[1].kids

CreatorFields == {"name", "nationality", "role", "qualifier"}

\* v is the first en-tagged value of cs, else the first nl-tagged one;
\* without either, null or one of the values.
PreferredValue(cs, en, nl, v) ==
  IF en # {} THEN v = FirstOf(cs, en)
  ELSE IF nl # {} THEN v = FirstOf(cs, nl)
  ELSE v \in {JNull} \cup {JStr(Strip(cs[i].text.v)) : i \in 1..Len(cs)}

\* C19: the name, nationality, role and qualifier creator() returns are each
\* the first non-blank en-tagged value when there is one, else the first
\* non-blank nl-tagged value when there is one, whatever precedes it; a
\* value without language is returned only when there is neither.
C19_EnglishThenDutch ==
  ret.name = "creator" =>
    \A f \in CreatorFields :
      PreferredValue(CreatorValues, InLang(CreatorValues, En),
                     InLang(CreatorValues, Nl), ret.out.v[f])

(***************************************************************************)
(* Properties of _parse_year                                               *)
(***************************************************************************)

IsDigit(c) == \E n \in 1..10 : Digits[n] = c
DigitValue(c) == (CHOOSE n \in 1..10 : Digits[n] = c) - 1

\* The positions of s where three digits stand in a row.
RunStarts(s) ==
  {i \in 1..(Len(s) - 2) : \A k \in 0..2 : IsDigit(s[i + k])}

\* The number the three digits from position i stand for, with the fourth
\* when a digit follows them.
RunValue(s, i) ==
  IF i + 3 <= Len(s) /\ IsDigit(s[i + 3])
  THEN 1000 * DigitValue(s[i]) + 100 * DigitValue(s[i + 1])
         + 10 * DigitValue(s[i + 2]) + DigitValue(s[i + 3])
  ELSE 100 * DigitValue(s[i]) + 10 * DigitValue(s[i + 1])
         + DigitValue(s[i + 2])

FirstStart(starts) == CHOOSE i \in starts : \A j \in starts : i <= j

\* v is the year of s.
YearOf(s, starts, v) ==
  IF starts = {} THEN v = JNull ELSE v = JNum(RunValue(s, FirstStart(starts)))

\* C20: _parse_year never raises; for None, for the empty string and for a
\* string without three digits in a row it returns None, not zero; for any
\* other string it returns the number of the first three digits in a row,
\* with the fourth digit when one follows.
C20_FirstDigitRun ==
  ret.name = "_parse_year" =>
    /\ ret.out.ok
    /\ IF arg = JNull THEN ret.out.v = JNull
       ELSE YearOf(arg.v, RunStarts(arg.v), ret.out.v)

\* 'a1901' gives 1901.
C20_Witness ==
  /\ ret.name = "_parse_year"
  /\ arg = JStr(<<"a", "1", "9", "0", "1">>)
  /\ ret.out = Ok(JNum(1901))

(***************************************************************************)
(* Properties of materials() and techniques()                              *)
(***************************************************************************)

\* The term nodes of the materials-tech entries of the creation event, in
\* document order.
TermNodes ==
  findall(doc, EventPath \o <<"eventMaterialsTech", "materialsTech",
                              "termMaterialsTech">>)

\* The label of a term node in a language: its first non-blank term tagged
\* with it, None without one.
LabelIn(term_el, lang) ==
  FirstOf(ChildrenOf(term_el, "term"), InLang(ChildrenOf(term_el, "term"), lang))

Labelled(term_el) == LabelIn(term_el, En) # JNull \/ LabelIn(term_el, Nl) # JNull

IsTechnique(term_el) ==
  term_el.type # JNull /\ Contains(term_el.type.v, <<"technique">>)

\* The entries that belong to techniques() and those that belong to
\* materials(), as positions of nodes.
RECURSIVE Wanted(_, _, _)
Wanted(nodes, i, technique) ==
  IF i > Len(nodes) THEN <<>>
  ELSE (IF Labelled(nodes[i]) /\ IsTechnique(nodes[i]) = technique
        THEN <<i>> ELSE <<>>) \o Wanted(nodes, i + 1, technique)

\* The trimmed texts of the terms of a term node.
TermTexts(term_el) ==
  {JStr(Strip(TextOf(ChildrenOf(term_el, "term")[i]))) :
     i \in 1..Len(ChildrenOf(term_el, "term"))}

\* The entry is that of the term node: its labels are texts of the node.
EntryOf(term_el, entry) ==
  /\ {entry.label_en, entry.label_nl} \ {JNull} # {}
  /\ {entry.label_en, entry.label_nl} \ {JNull} \subseteq TermTexts(term_el)

\* The list out holds the entries of nodes at the positions wanted, in order.
HoldsEntries(nodes, wanted, out) ==
  /\ Len(out) = Len(wanted)
  /\ \A k \in 1..Len(wanted) : EntryOf(nodes[wanted[k]], out[k])

\* C21: techniques() lists, in document order, the materials-tech entries of
\* the creation event that have an English or a Dutch label and whose type
\* attribute contains 'technique'; materials() lists the other entries with
\* a label; an entry with neither label is in neither list.
C21_MaterialsPartition ==
  ret.name \in MaterialsAccessors =>
    HoldsEntries(TermNodes, Wanted(TermNodes, 1, ret.name = "techniques"),
                 ret.out.v)

(***************************************************************************)
(* Properties of the AAT URI                                               *)
(***************************************************************************)

\* The concept-IDs of the object type of the document; its material holds
\* the same ones.
ConceptIds ==
  ChildrenOf(findall(doc, <<Dm, "objectClassificationWrap",
                            "objectWorkTypeWrap", "objectWorkType">>)[1],
             "conceptID")

\* The text is a getty.edu/aat/ URI with a digit after '/aat/'.
IsAatUri(text) ==
  \E p \in 1..Len(text) :
    /\ p + 4 <= Len(text)
    /\ SubSeq(text, p, p + 3) = <<"vocab.getty.edu", "/", "aat", "/">>
    /\ IsDigit(text[p + 4])

\* The positions of the concept-IDs that are AAT URIs.
AatPositions(cids) == {i \in 1..Len(cids) : IsAatUri(TextOf(cids[i]))}

\* The URI the accessor returned.
UriOf(name, out) ==
  IF name = "object_type" THEN out[3] ELSE out[1].aat_uri

\* C22: the AAT URI of the object type and of a material is the trimmed
\* text of the first concept-ID that is a getty.edu/aat/ URI with a digit
\* after '/aat/'; concept-IDs before it that are none are skipped; it is
\* null when no concept-ID is one, whatever other concept-IDs there are.
C22_FirstAatConceptId ==
  ret.name \in AatAccessors =>
    UriOf(ret.name, ret.out.v) = FirstOf(ConceptIds, AatPositions(ConceptIds))

\* The second concept-ID is returned, trimmed, after the AAT prefix without
\* an id.
C22_Witness ==
  /\ ret.name = "materials"
  /\ Len(ConceptIds) = 2
  /\ TextOf(ConceptIds[1]) = AatPrefix
  /\ ret.out.v[1].aat_uri = JStr(AatPrefix \o <<"7">>)

(***************************************************************************)
(* Properties of subjects()                                                *)
(***************************************************************************)

SubjectPath == <<Dm, "objectRelationWrap", "subjectWrap", "subjectSet", "subject">>

\* The first non-blank text at the path under el, None without one.
TextAt(el, path) ==
  FirstOf(findall(el, path),
          {i \in 1..Len(findall(el, path)) : NonBlank(findall(el, path)[i])})

\* The label and the URI of a subject element of each kind.
Described(el) ==
  CASE el.tag = "subjectConcept" ->
         <<TextAt(el, <<"term">>), TextAt(el, <<"conceptID">>)>>
    [] el.tag = "subjectActor" ->
         <<TextAt(el, <<"actor", "nameActorSet", "appellationValue">>), JNull>>
    [] el.tag = "subjectPlace" ->
         <<TextAt(el, <<"place", "namePlaceSet", "appellationValue">>),
           TextAt(el, <<"place", "placeID">>)>>
    [] OTHER ->
         <<TextAt(el, <<"event", "eventName", "appellationValue">>), JNull>>

\* The subjects of one kind with a label or a URI, in document order.
RECURSIVE DescribedIn(_, _)
DescribedIn(els, i) ==
  IF i > Len(els) THEN <<>>
  ELSE (IF Described(els[i]) # <<JNull, JNull>> THEN <<Described(els[i])>>
        ELSE <<>>) \o DescribedIn(els, i + 1)

OfKind(tag) == DescribedIn(findall(doc, SubjectPath \o <<tag>>), 1)

\* The subjects of the record: concepts, persons, places, events.
ByKind ==
  OfKind("subjectConcept") \o OfKind("subjectActor")
    \o OfKind("subjectPlace") \o OfKind("subjectEvent")

\* C23: subjects() returns every subject of the record that has a label or
\* a URI: the concepts of all subject-sets in document order, then the
\* persons, then the places, then the events.
C23_SubjectsByKind ==
  ret.name = "subjects" =>
    [k \in 1..Len(ret.out.v) |-> <<ret.out.v[k].label, ret.out.v[k].uri>>]
      = ByKind

(***************************************************************************)
(* Properties of the Linked Art dimensions                                 *)
(***************************************************************************)

Reversed(q) == [i \in 1..Len(q) |-> q[Len(q) + 1 - i]]

\* The measurement node with its membership labels in reverse order.
MembersReversed(dim) ==
  IF "member_of" \in DOMAIN dim.v
  THEN JDict([dim.v EXCEPT !["member_of"] = JList(Reversed(@.v))])
  ELSE dim

\* The measurement nodes of the document in another order, and with the
\* membership labels of each in another order.
Reordered(dims) ==
  { Reversed(dims), [i \in 1..Len(dims) |-> MembersReversed(dims[i])] }

\* The keys are in ascending order.
Ascending(dimensions) ==
  \A i \in 1..(Len(dimensions) - 1) : StrLess(dimensions[i].k, dimensions[i + 1].k)

\* The dimensions map as a set of keys with their values.
AsSet(dimensions) == {dimensions[i] : i \in 1..Len(dimensions)}

\* The keys are the set names of the two tables, in ascending order.
UnionOfNames(dimensions, t) ==
  /\ Keys(dimensions) = Keys(t.sets) \cup Keys(t.display_strings)
  /\ Len(dimensions) = Cardinality(Keys(dimensions))
  /\ Ascending(dimensions)

\* C24: the keys of the dimensions map are the set names of the measurement
\* nodes together with those of the dimensions descriptions, in ascending
\* order; and the keys and the values under them are the same for the
\* measurement nodes in another order and for the membership labels of a
\* node in another order.
C24_KeysSortedOrderFree ==
  Returned(obj) =>
    /\ UnionOfNames(obj.v.dimensions,
                    dimension_tables(JList(RawList("dimension")),
                                     JList(RawList("referred_to_by"))).v)
    /\ \A dims \in Reordered(RawList("dimension")) :
         AsSet(_extract_dimensions(JList(dims),
                                   JList(RawList("referred_to_by")), 0).v)
           = AsSet(obj.v.dimensions)

\* The membership labels of a measurement node and the technique labels of
\* a dimensions description.
MemberLabels(dim) ==
  IF "member_of" \in DOMAIN dim.v
  THEN [i \in 1..Len(dim.v["member_of"].v) |->
          dim.v["member_of"].v[i].v["_label"].v]
  ELSE <<>>
TechniqueLabels(ref) ==
  IF "assigned_by" \in DOMAIN ref.v
  THEN [i \in 1..Len(ref.v["assigned_by"].v[1].v["technique"].v) |->
          ref.v["assigned_by"].v[1].v["technique"].v[i].v["_label"].v]
  ELSE <<>>

IsMeasurement(dim) ==
  ClassifiedUnder(dim, AAT_HEIGHT) \/ ClassifiedUnder(dim, AAT_WIDTH)

\* The measurement nodes of the context the description names: those with
\* its label, or without label when it has none.
SameContext(dims, ref) ==
  {i \in 1..Len(dims) :
     /\ IsMeasurement(dims[i])
     /\ Len(MemberLabels(dims[i])) <= 1
     /\ MemberLabels(dims[i]) = TechniqueLabels(ref)}

\* The entry holds the value of one of the measurement nodes at positions s.
HoldsOneOf(entry, dims, s) ==
  \E i \in s : dims[i].v["value"] \in {entry.v.height, entry.v.width}

\* The content of the description is the display text of the set that holds
\* the measurements of its context.
AttachedToItsSet(dimensions, dims, ref) ==
  (Strip(ref.v["content"].v) # <<>> /\ SameContext(dims, ref) # {}) =>
    \E k \in 1..Len(dimensions) :
      /\ dimensions[k].v.display = JStr(Strip(ref.v["content"].v))
      /\ HoldsOneOf(dimensions[k], dims, SameContext(dims, ref))

\* C25: a dimensions description with content is the display text of the
\* dimension set that holds the measurements whose membership label is its
\* technique label, for a fixed set name and for a free-form one; without
\* label it is that of 'default', with the measurements without label.
C25_DisplayOnMeasuredSet ==
  Returned(obj) =>
    \A j \in 1..Len(RawList("referred_to_by")) :
      AttachedToItsSet(obj.v.dimensions, RawList("dimension"),
                       RawList("referred_to_by")[j])

(***************************************************************************)
(* Properties of the Linked Art artists                                    *)
(***************************************************************************)

\* The contributors and the production-level statements of the document.
Contributors == raw.v["produced_by"].v["carried_out_by"].v
Statements == raw.v["produced_by"].v["referred_to_by"].v

\* The content of the first of the entries classified under uri, None
\* without one.
StatementOf(entries, uri) ==
  IF \E i \in 1..Len(entries) : ClassifiedUnder(entries[i], uri)
  THEN JStr(Strip(entries[CHOOSE i \in 1..Len(entries) :
                            /\ ClassifiedUnder(entries[i], uri)
                            /\ \A j \in 1..(i - 1) :
                                 ~ClassifiedUnder(entries[j], uri)
                         ].v["content"].v))
  ELSE JNull

\* One Artist per contributor, in order; the production-level description
\* and nationality are on the first only, and the name where it has none.
OnePerContributor(artists, persons, name, desc, nat) ==
  /\ Len(artists) = Len(persons)
  /\ \A i \in 1..Len(persons) :
       /\ artists[i].name =
            IF "_label" \in DOMAIN persons[i].v THEN persons[i].v["_label"]
            ELSE IF i = 1 THEN name ELSE JNull
       /\ artists[i].description = IF i = 1 THEN desc ELSE JNull
       /\ artists[i].nationality_and_dates = IF i = 1 THEN nat ELSE JNull

\* Without contributors, one Artist of the three fields when one of them
\* is there, none otherwise.
Synthesized(artists, name, desc, nat) ==
  IF name # JNull \/ desc # JNull \/ nat # JNull
  THEN /\ Len(artists) = 1
       /\ artists[1].name = name
       /\ artists[1].description = desc
       /\ artists[1].nationality_and_dates = nat
  ELSE artists = <<>>

ArtistsOf(artists, persons, name, desc, nat) ==
  IF persons # <<>> THEN OnePerContributor(artists, persons, name, desc, nat)
  ELSE Synthesized(artists, name, desc, nat)

\* C26: each carried_out_by entry becomes one Artist, in input order; the
\* production-level description and nationality are on the first Artist
\* and on no later one, the production-level name on the first when it has
\* none; without contributors one Artist is made of the three fields when
\* any of them is present, and none otherwise.
C26_ArtistsOfProduction ==
  Returned(obj) =>
    ArtistsOf(obj.v.artists, Contributors,
              StatementOf(Statements, LOCAL_PRODUCER_NAME),
              StatementOf(Statements, LOCAL_PRODUCER_DESC),
              StatementOf(Statements, LOCAL_PRODUCER_NAT_DATES))

(***************************************************************************)
(* Properties of the Linked Art description                                *)
(***************************************************************************)

\* The positions of the description candidates with non-blank content, and
\* of those among them marked as rich text.
DescCandidates(entries) ==
  {i \in 1..Len(entries) :
     /\ ClassifiedUnder(entries[i], AAT_DESCRIPTION)
     /\ Strip(entries[i].v["content"].v) # <<>>}
RichText(entries, candidates) ==
  {i \in candidates :
     /\ "format" \in DOMAIN entries[i].v
     /\ entries[i].v["format"] = JStr(<<"text/markdown">>)}

\* The trimmed content of the first of the entries at the positions in s.
FirstContent(entries, s) ==
  IF s = {} THEN JNull
  ELSE JStr(Strip(entries[CHOOSE i \in s : \A j \in s : i <= j].v["content"].v))

ChosenDescription(entries, candidates, rich) ==
  FirstContent(entries, IF rich # {} THEN rich ELSE candidates)

\* C27: the description is the content of the first description candidate
\* with non-blank content that is marked text/markdown, wherever it stands
\* among the plain ones; without such a candidate, that of the first
\* candidate with non-blank content; null without any.
C27_RichTextPreferred ==
  Returned(obj) =>
    obj.v.description =
      ChosenDescription(RawList("referred_to_by"),
                        DescCandidates(RawList("referred_to_by")),
                        RichText(RawList("referred_to_by"),
                                 DescCandidates(RawList("referred_to_by"))))

\* A rich-text candidate is chosen over the plain one before it.
C27_Witness ==
  /\ Returned(obj)
  /\ DescCandidates(RawList("referred_to_by")) = {1, 2}
  /\ RichText(RawList("referred_to_by"), {1, 2}) = {2}
  /\ obj.v.description = JStr(<<"b">>)

(***************************************************************************)
(* Properties of the Linked Art URLs                                       *)
(***************************************************************************)

ManifestMark == <<"/", "iiif", "/", "manifest", "/">>

\* The ids of the subject_of entries that contain the mark.
IdsWith(entries, mark) ==
  { entries[i].v["id"] :
      i \in {j \in 1..Len(entries) :
               /\ "id" \in DOMAIN entries[j].v
               /\ Contains(entries[j].v["id"].v, mark)} }

\* The field is one of the ids, when there is one.
SetToOneOf(field, ids) == ids # {} => field \in ids

\* The id of the first representation, None without one.
FirstRepresentation(reps) ==
  IF reps # <<>> /\ "id" \in DOMAIN reps[1].v THEN reps[1].v["id"] ELSE JNull

\* C28: when a subject_of entry has an id containing '/iiif/manifest/',
\* iiif_manifest is such an id; when one has an id containing
\* 'getty.edu/art/collection/object/', homepage is such an id; image_url is
\* the id of the first representation entry, null when there is none.
C28_UrlsBySubstring ==
  Returned(obj) =>
    /\ SetToOneOf(obj.v.iiif_manifest, IdsWith(RawList("subject_of"), ManifestMark))
    /\ SetToOneOf(obj.v.homepage, IdsWith(RawList("subject_of"), HomepageMark))
    /\ obj.v.image_url = FirstRepresentation(RawList("representation"))

(***************************************************************************)
(* Properties of the Linked Art identifiers                                *)
(***************************************************************************)

\* The concept of each key of the identifiers map.
ConceptOf(key) ==
  CASE key = "dor_id" -> LOCAL_DOR_ID
    [] key = "tms_id" -> LOCAL_TMS_ID
    [] key = "slug" -> LOCAL_SLUG

IdentifierKeys == {"dor_id", "tms_id", "slug"}

\* The positions of the entries with non-blank content classified under
\* the concept of the key.
EntriesFor(entries, key) ==
  {i \in 1..Len(entries) :
     /\ ClassifiedUnder(entries[i], ConceptOf(key))
     /\ Strip(entries[i].v["content"].v) # <<>>}

\* The trimmed content, for slug without the prefix of slugs.
Cleaned(key, content) ==
  IF /\ key = "slug"
     /\ Len(content) >= Len(SLUG_URN)
     /\ SubSeq(content, 1, Len(SLUG_URN)) = SLUG_URN
  THEN JStr(SubSeq(content, Len(SLUG_URN) + 1, Len(content)))
  ELSE JStr(content)

\* The map has the key exactly when an entry is for it, and then with the
\* content of such an entry.
KeyFromEntries(identifiers, entries, key, for) ==
  /\ HasKey(identifiers, key) <=> for # {}
  /\ for # {} =>
       Lookup(identifiers, key, JNull)
         \in {Cleaned(key, Strip(entries[i].v["content"].v)) : i \in for}

Processed ==
  /\ hydrate.pc = "hydrate"
  /\ hydrate'.pc = "hydrate"
  /\ hydrate'.i = hydrate.i + 1

\* The entry was pending when fetched and is settled after, by the
\* outcome of the fetch.
Settled(before, after, outcome) ==
  /\ before.status = "pending"
  /\ after.status # "pending"
  /\ outcome.t = "doc" => after.status = "done" /\ after.fetched_at # NULL
  /\ outcome.t \in {"HTTPError", "URLError"} =>
       after.status = "error" /\ after.error_message # NULL

HydrationSettles ==
  Processed =>
    Settled(getty_object_index[hydrate.urls[hydrate.i]],
            getty_object_index'[hydrate.urls[hydrate.i]], hydrate'.last)

\* Every done entry of the index has its row in getty_objects.
DoneHaveRows ==
  \A u \in ObjectUrls :
    (getty_object_index[u] # NoRow /\ getty_object_index[u].status = "done")
      => getty_objects[u] # NoRow

\* C30: a round of hydrate_pending_objects fetches an entry that is pending
\* and leaves it done with fetched_at set after a fetch and upsert that
\* succeeded, error with a message after an HTTPError or URLError, and in
\* no case pending; and in every state each done entry of the index has a
\* row in getty_objects.
C30_HydrationSettlesEntries == [][HydrationSettles]_vars /\ []DoneHaveRows

====
